---- MODULE Spec2Model ----
(***************************************************************************)
(* Model of the library application's transactional data layer (db.js)     *)
(* and of the form handlers of script.js that drive it.                    *)
(*                                                                         *)
(* A record store is a function from primary key to record.  Each of the   *)
(* three object stores has keyPath 'id' and autoIncrement, so every store  *)
(* carries a key generator.  The stores keep every field that is read,     *)
(* compared or indexed by a unique index.  The descriptive fields that no  *)
(* transaction reads (titulo, autor, nome, turma, dataEmprestimo,          *)
(* dataPrevistaDevolucao) have one value each, which appears where the     *)
(* records are written to a backup file as JSON objects.                   *)
(*                                                                         *)
(* The backup layer is modelled down to the text of the file: a JSON       *)
(* value is serialized to a sequence of tokens whose characters are the    *)
(* character codes the checksum adds up, and a file is parsed from its     *)
(* tokens.  DB.exportAllData is three steps, one per store it reads, and   *)
(* handleImportarDados is a step per await.                                *)
(***************************************************************************)
EXTENDS Integers, FiniteSets, Sequences, TLC

\* ---- bounds of the exploration ----
MaxLivros == 2
MaxAlunos == 2
MaxEmprestimos == 1
MaxQtd == 1
\* calls of the data layer awaited at one time
MaxEmCurso == 2

\* an item without the 'id' property / an empty hidden form field
NoId == 0
\* dataDevolucaoReal: null
Null == "null"

\* values of the unique fields and of the calendar dates (YYYY-MM-DD)
Isbns == {"isbn-a", "isbn-b"}
Matriculas == {"mat-a", "mat-b"}
Datas == {"2024-03-01", "2024-03-02"}
\* value of the student select of the loan form; the data layer copies
\* idAluno into the loan and never reads it, so one value stands for all
IdsAluno == {1}
QtdInputs == 0..MaxQtd
StatusValues == {"ativo", "devolvido"}

VARIABLES livros, alunos, emprestimos, keyGen, everIds,
          formLivroId, formAlunoId, last,
          exportPc, exportado, vistos, importPc, arquivo, jsonLido,
          chamadas, fila

vars == <<livros, alunos, emprestimos, keyGen, everIds,
          formLivroId, formAlunoId, last,
          exportPc, exportado, vistos, importPc, arquivo, jsonLido,
          chamadas, fila>>

\* the position and the partial result of a running DB.exportAllData, the
\* position of a running handleImportarDados, the text of its file and the
\* payload parsed from it; and the calls of the data layer that handlers
\* await, with the queue of their transactions
backupVars ==
    <<exportPc, exportado, importPc, arquivo, jsonLido, chamadas, fila>>

\* the database as one value, handed to the DB operations
CurrentDB ==
    [livros |-> livros, alunos |-> alunos, emprestimos |-> emprestimos,
     gen |-> keyGen]

\* ---- object-store primitives (IndexedDB, as configured by initDB) ----

\* the primary key a put/add uses: the item's id, else the generator's number
ChaveDe(gen, item) == IF item.id = NoId THEN gen ELSE item.id

\* mutation: a key generator that never advances
ProximoGeradorParado(gen, item) == gen

\* the key generator after a successful put/add of item
ProximoGerador(gen, item) ==
    IF item.id = NoId THEN gen + 1
    ELSE IF item.id >= gen THEN item.id + 1 ELSE gen

\* mutation: idx_isbn created without unique: true
ViolaIsbnNaoUnico(store, key, item) == FALSE

\* unique index idx_isbn: another record already holds this isbn
ViolaIsbn(store, key, item) ==
    \E k \in DOMAIN store : k /= key /\ store[k].isbn = item.isbn

\* unique index idx_matricula
ViolaMatricula(store, key, item) ==
    \E k \in DOMAIN store : k /= key /\ store[k].matricula = item.matricula

\* the store after writing item under key (the key is injected at keyPath)
Grava(store, key, item) ==
    [k \in (DOMAIN store) \cup {key} |->
        IF k = key THEN [item EXCEPT !.id = key] ELSE store[k]]

\* the store after deleting key
Remove(store, key) == [k \in (DOMAIN store) \ {key} |-> store[k]]

\* mutation: a failed request whose transaction is not rolled back
AbortSemRollback(pre, work) == work

\* an aborted transaction: the store keeps its content from before the
\* transaction, whatever the transaction had written so far
Abort(pre, work) == pre

Outcome(db, res, ret) == [db |-> db, res |-> res, ret |-> ret]

EmptyStore == [k \in {} |-> NoId]

\* ---- business rules of the two domain transactions (db.js) ----

\* mutation: the stock test written with < instead of <=
IndisponivelMenorQue(store, idLivro) ==
    \/ idLivro \notin DOMAIN store
    \/ store[idLivro].quantidadeDisponivel < 0

\* registrarEmprestimo: !livro || livro.quantidadeDisponivel <= 0
Indisponivel(store, idLivro) ==
    \/ idLivro \notin DOMAIN store
    \/ store[idLivro].quantidadeDisponivel <= 0

\* mutation: the decrement applied twice
DecrementaDois(livro) ==
    [livro EXCEPT !.quantidadeDisponivel = @ - 2]

\* registrarEmprestimo: livro.quantidadeDisponivel -= 1
Decrementa(livro) ==
    [livro EXCEPT !.quantidadeDisponivel = @ - 1]

\* mutation: the status test dropped from the guard
EmprestimoInvalidoSoAusente(store, idEmprestimo) ==
    idEmprestimo \notin DOMAIN store

\* registrarDevolucao: !emprestimo || emprestimo.status === 'devolvido'
EmprestimoInvalido(store, idEmprestimo) ==
    \/ idEmprestimo \notin DOMAIN store
    \/ store[idEmprestimo].status = "devolvido"

\* mutation: the return date not written
MarcaDevolvidoSemData(emprestimo, dataDevolucaoReal) ==
    [emprestimo EXCEPT !.status = "devolvido"]

\* registrarDevolucao: status = 'devolvido'; dataDevolucaoReal = <date>
MarcaDevolvido(emprestimo, dataDevolucaoReal) ==
    [emprestimo EXCEPT !.status = "devolvido",
                       !.dataDevolucaoReal = dataDevolucaoReal]

\* mutation: the increment left out
IncrementaNada(livro) == livro

\* registrarDevolucao: livro.quantidadeDisponivel += 1
Incrementa(livro) ==
    [livro EXCEPT !.quantidadeDisponivel = @ + 1]

\* ---- DB operations ----
\* A failed request has no error handler that prevents the default, so its
\* transaction aborts and the promise is rejected with the request's error.
\* In the two domain transactions falha = 1 or 2 makes the first or the
\* second write request fail with a storage fault; falha = 0 is a run
\* without storage fault.  falha = 3 is a fault at commit time: every
\* request has succeeded and the transaction aborts, which fires 'abort'
\* at the transaction and no 'error'; the two domain transactions handle
\* oncomplete and onerror only, so their promise is neither resolved nor
\* rejected ("Pendente").

\* DB.save on 'livros'
DB_saveLivro(db, item) ==
    LET key == ChaveDe(db.gen.livros, item)
        work == [db EXCEPT !.livros = Grava(@, key, item),
                           !.gen.livros = ProximoGerador(@, item)]
    IN  IF ViolaIsbn(db.livros, key, item)
        THEN Outcome(Abort(db, db), "ConstraintViolation", NoId)
        ELSE Outcome(work, "ok", key)

\* DB.save on 'alunos'
DB_saveAluno(db, item) ==
    LET key == ChaveDe(db.gen.alunos, item)
        work == [db EXCEPT !.alunos = Grava(@, key, item),
                           !.gen.alunos = ProximoGerador(@, item)]
    IN  IF ViolaMatricula(db.alunos, key, item)
        THEN Outcome(Abort(db, db), "ConstraintViolation", NoId)
        ELSE Outcome(work, "ok", key)

\* mutation: a delete that treats an absent key as an error
DB_deleteLivroEstrito(db, id) ==
    IF id \in DOMAIN db.livros
    THEN Outcome([db EXCEPT !.livros = Remove(@, id)], "ok", NoId)
    ELSE Outcome(Abort(db, db), "NotFound", NoId)

\* mutation: a delete that cascades to the loans of the book
DB_deleteLivroCascata(db, id) ==
    Outcome([db EXCEPT
                !.livros = Remove(@, id),
                !.emprestimos =
                    [e \in {k \in DOMAIN @ : @[k].idLivro /= id} |-> @[e]]],
            "ok", NoId)

\* DB.delete: store.delete(id) succeeds whether or not the key is stored
DB_deleteLivro(db, id) ==
    Outcome([db EXCEPT !.livros = Remove(@, id)], "ok", NoId)

DB_deleteAluno(db, id) ==
    Outcome([db EXCEPT !.alunos = Remove(@, id)], "ok", NoId)

\* DB.registrarEmprestimo: get livro; put livro (write 1); add emprestimo
\* (write 2), in one readwrite transaction over livros and emprestimos
DB_registrarEmprestimo(db, emprestimo, falha) ==
    IF Indisponivel(db.livros, emprestimo.idLivro)
    THEN Outcome(Abort(db, db), "Unavailable", NoId)
    ELSE
      LET idLivro == emprestimo.idLivro
          key == ChaveDe(db.gen.emprestimos, emprestimo)
          w1 == [db EXCEPT !.livros =
                     Grava(@, idLivro, Decrementa(db.livros[idLivro]))]
          w2 == [w1 EXCEPT !.emprestimos = Grava(@, key, emprestimo),
                           !.gen.emprestimos = ProximoGerador(@, emprestimo)]
      IN  IF falha = 1
          THEN Outcome(Abort(db, db), "StorageFault", NoId)
          ELSE IF key \in DOMAIN db.emprestimos
          THEN Outcome(Abort(db, w1), "ConstraintViolation", NoId)
          ELSE IF falha = 2
          THEN Outcome(Abort(db, w1), "StorageFault", NoId)
          ELSE IF falha = 3
          THEN Outcome(Abort(db, w2), "Pendente", NoId)
          ELSE Outcome(w2, "ok", key)

\* DB.registrarDevolucao: get emprestimo; put emprestimo (write 1); get
\* livro; if present put livro (write 2), in one readwrite transaction
DB_registrarDevolucao(db, idEmprestimo, dataDevolucaoReal, falha) ==
    IF EmprestimoInvalido(db.emprestimos, idEmprestimo)
    THEN Outcome(Abort(db, db), "InvalidLoanState", NoId)
    ELSE
      LET emprestimo == db.emprestimos[idEmprestimo]
          idLivro == emprestimo.idLivro
          w1 == [db EXCEPT !.emprestimos =
                     Grava(@, idEmprestimo,
                           MarcaDevolvido(emprestimo, dataDevolucaoReal))]
          w2 == IF idLivro \in DOMAIN w1.livros
                THEN [w1 EXCEPT !.livros =
                         Grava(@, idLivro, Incrementa(w1.livros[idLivro]))]
                ELSE w1
      IN  IF falha = 1
          THEN Outcome(Abort(db, db), "StorageFault", NoId)
          ELSE IF falha = 2 /\ idLivro \in DOMAIN w1.livros
          THEN Outcome(Abort(db, w1), "StorageFault", NoId)
          ELSE IF falha = 3
          THEN Outcome(Abort(db, w2), "Pendente", NoId)
          ELSE Outcome(w2, "ok", NoId)

\* DB.importAllData: the puts of one collection, in the order of the array.
\* acc carries the store written so far, its key generator, the number of
\* put requests made and the result so far; campo names the unique index
\* of the store.  The first request that fails ends the transaction.
RECURSIVE PutTodos(_, _, _, _)
PutTodos(acc, itens, campo, falha) ==
    IF itens = << >> \/ acc.res /= "ok"
    THEN acc
    ELSE
      LET item == Head(itens)
          key == ChaveDe(acc.gen, item)
          viola == CASE campo = "isbn" -> ViolaIsbn(acc.store, key, item)
                     [] campo = "matricula" ->
                            ViolaMatricula(acc.store, key, item)
                     [] OTHER -> FALSE
      IN  IF acc.n + 1 = falha
          THEN [acc EXCEPT !.n = @ + 1, !.res = "StorageFault"]
          ELSE IF viola
          THEN [acc EXCEPT !.n = @ + 1, !.res = "ConstraintViolation"]
          ELSE PutTodos([store |-> Grava(acc.store, key, item),
                         gen |-> ProximoGerador(acc.gen, item),
                         n |-> acc.n + 1, res |-> "ok"],
                        Tail(itens), campo, falha)

\* mutation: the three clears left out
DB_importAllDataSemClear(db, data, falha) ==
    LET l == PutTodos([store |-> db.livros, gen |-> db.gen.livros,
                       n |-> 0, res |-> "ok"],
                      data.livros, "isbn", falha)
        a == PutTodos([store |-> db.alunos, gen |-> db.gen.alunos,
                       n |-> l.n, res |-> l.res],
                      data.alunos, "matricula", falha)
        e == PutTodos([store |-> db.emprestimos, gen |-> db.gen.emprestimos,
                       n |-> a.n, res |-> a.res],
                      data.emprestimos, "", falha)
        work == [livros |-> l.store, alunos |-> a.store,
                 emprestimos |-> e.store,
                 gen |-> [livros |-> l.gen, alunos |-> a.gen,
                          emprestimos |-> e.gen]]
    IN  IF e.res = "ok"
        THEN Outcome(work, "ok", NoId)
        ELSE Outcome(Abort(db, work), e.res, NoId)

\* DB.importAllData: one readwrite transaction over the three stores that
\* clears them (clear() keeps the key generators) and puts every record of
\* data; falha = n > 0 makes the n-th put request fail with a storage fault
DB_importAllData(db, data, falha) ==
    LET l == PutTodos([store |-> EmptyStore, gen |-> db.gen.livros,
                       n |-> 0, res |-> "ok"],
                      data.livros, "isbn", falha)
        a == PutTodos([store |-> EmptyStore, gen |-> db.gen.alunos,
                       n |-> l.n, res |-> l.res],
                      data.alunos, "matricula", falha)
        e == PutTodos([store |-> EmptyStore, gen |-> db.gen.emprestimos,
                       n |-> a.n, res |-> a.res],
                      data.emprestimos, "", falha)
        work == [livros |-> l.store, alunos |-> a.store,
                 emprestimos |-> e.store,
                 gen |-> [livros |-> l.gen, alunos |-> a.gen,
                          emprestimos |-> e.gen]]
    IN  IF e.res = "ok"
        THEN Outcome(work, "ok", NoId)
        ELSE Outcome(Abort(db, work), e.res, NoId)

\* ---- JSON (JSON.stringify, JSON.parse) ----
\* A string is the sequence of its character codes.  A JSON value is a
\* number, a string, null, an array of values or an object, which is the
\* sequence of its properties in insertion order.

\* the character codes of the property names and of the string values
Letras(s) ==
    CASE s = "versao" ->
           <<118, 101, 114, 115, 97, 111>>
      [] s = "dataExportacao" ->
           <<100, 97, 116, 97, 69, 120, 112, 111, 114, 116, 97, 99, 97, 111>>
      [] s = "totalRegistros" ->
           <<116, 111, 116, 97, 108, 82, 101, 103, 105, 115, 116, 114, 111, 115>>
      [] s = "livros" ->
           <<108, 105, 118, 114, 111, 115>>
      [] s = "alunos" ->
           <<97, 108, 117, 110, 111, 115>>
      [] s = "emprestimos" ->
           <<101, 109, 112, 114, 101, 115, 116, 105, 109, 111, 115>>
      [] s = "checksum" ->
           <<99, 104, 101, 99, 107, 115, 117, 109>>
      [] s = "id" ->
           <<105, 100>>
      [] s = "titulo" ->
           <<116, 105, 116, 117, 108, 111>>
      [] s = "autor" ->
           <<97, 117, 116, 111, 114>>
      [] s = "isbn" ->
           <<105, 115, 98, 110>>
      [] s = "quantidadeTotal" ->
           <<113, 117, 97, 110, 116, 105, 100, 97, 100, 101, 84, 111, 116, 97, 108>>
      [] s = "quantidadeDisponivel" ->
           <<113, 117, 97, 110, 116, 105, 100, 97, 100, 101, 68, 105, 115, 112, 111, 110, 105, 118, 101, 108>>
      [] s = "nome" ->
           <<110, 111, 109, 101>>
      [] s = "matricula" ->
           <<109, 97, 116, 114, 105, 99, 117, 108, 97>>
      [] s = "turma" ->
           <<116, 117, 114, 109, 97>>
      [] s = "idLivro" ->
           <<105, 100, 76, 105, 118, 114, 111>>
      [] s = "idAluno" ->
           <<105, 100, 65, 108, 117, 110, 111>>
      [] s = "dataEmprestimo" ->
           <<100, 97, 116, 97, 69, 109, 112, 114, 101, 115, 116, 105, 109, 111>>
      [] s = "dataPrevistaDevolucao" ->
           <<100, 97, 116, 97, 80, 114, 101, 118, 105, 115, 116, 97, 68, 101, 118, 111, 108, 117, 99, 97, 111>>
      [] s = "dataDevolucaoReal" ->
           <<100, 97, 116, 97, 68, 101, 118, 111, 108, 117, 99, 97, 111, 82, 101, 97, 108>>
      [] s = "status" ->
           <<115, 116, 97, 116, 117, 115>>
      [] s = "1.0" ->
           <<49, 46, 48>>
      [] s = "2024-03-05T12:00:00.000Z" ->
           <<50, 48, 50, 52, 45, 48, 51, 45, 48, 53, 84, 49, 50, 58, 48, 48, 58, 48, 48, 46, 48, 48, 48, 90>>
      [] s = "isbn-a" ->
           <<105, 115, 98, 110, 45, 97>>
      [] s = "isbn-b" ->
           <<105, 115, 98, 110, 45, 98>>
      [] s = "mat-a" ->
           <<109, 97, 116, 45, 97>>
      [] s = "mat-b" ->
           <<109, 97, 116, 45, 98>>
      [] s = "2024-03-01" ->
           <<50, 48, 50, 52, 45, 48, 51, 45, 48, 49>>
      [] s = "2024-03-02" ->
           <<50, 48, 50, 52, 45, 48, 51, 45, 48, 50>>
      [] s = "ativo" ->
           <<97, 116, 105, 118, 111>>
      [] s = "devolvido" ->
           <<100, 101, 118, 111, 108, 118, 105, 100, 111>>
      [] s = "Dom Casmurro" ->
           <<68, 111, 109, 32, 67, 97, 115, 109, 117, 114, 114, 111>>
      [] s = "DomCasmurro" ->
           <<68, 111, 109, 67, 97, 115, 109, 117, 114, 114, 111>>
      [] s = "Machado" ->
           <<77, 97, 99, 104, 97, 100, 111>>
      [] s = "Capitu" ->
           <<67, 97, 112, 105, 116, 117>>
      [] s = "1A" ->
           <<49, 65>>

JNum(n) == [t |-> "num", n |-> n]
JStr(s) == [t |-> "str", s |-> s]
JNull == [t |-> "null"]
JArr(a) == [t |-> "arr", a |-> a]
JObj(o) == [t |-> "obj", o |-> o]

\* a property of an object
Prop(k, v) == [k |-> Letras(k), v |-> v]

\* k in obj
TemCampo(obj, k) == \E i \in 1..Len(obj.o) : obj.o[i].k = Letras(k)

\* obj[k] of a property that is there
Campo(obj, k) ==
    obj.o[CHOOSE i \in 1..Len(obj.o) : obj.o[i].k = Letras(k)].v

\* delete obj[k]
SemCampo(obj, k) ==
    JObj(SelectSeq(obj.o, LAMBDA p : p.k /= Letras(k)))

\* obj[k] = v: the property keeps its place, a new one goes last
ComCampo(obj, k, v) ==
    IF TemCampo(obj, k)
    THEN JObj([i \in 1..Len(obj.o) |->
                 IF obj.o[i].k = Letras(k) THEN Prop(k, v) ELSE obj.o[i]])
    ELSE JObj(Append(obj.o, Prop(k, v)))

\* A text is a sequence of tokens: a punctuation character, a quoted
\* string, a number, the literal null, or a run of white space.
Pont(c) == [tk |-> "p", c |-> c]
Aspas(s) == [tk |-> "s", s |-> s]
Numero(n) == [tk |-> "n", n |-> n]
LitNull == [tk |-> "z"]
Branco(s) == [tk |-> "w", s |-> s]

\* the white space JSON.stringify(value, null, 2) writes: a line break with
\* its indentation, and the blank after a colon; none without the indent
Quebra(indent) == IF indent THEN << Branco(<<10, 32, 32>>) >> ELSE << >>
Espaco(indent) == IF indent THEN << Branco(<<32>>) >> ELSE << >>

\* JSON.stringify
RECURSIVE Stringify(_, _)
RECURSIVE StringifyItens(_, _, _)
RECURSIVE StringifyProps(_, _, _)
Stringify(v, indent) ==
    CASE v.t = "num" -> << Numero(v.n) >>
      [] v.t = "str" -> << Aspas(v.s) >>
      [] v.t = "null" -> << LitNull >>
      [] v.t = "arr" ->
            IF v.a = << >>
            THEN << Pont(91), Pont(93) >>
            ELSE << Pont(91) >> \o Quebra(indent)
                   \o StringifyItens(v.a, 1, indent)
                   \o Quebra(indent) \o << Pont(93) >>
      [] v.t = "obj" ->
            IF v.o = << >>
            THEN << Pont(123), Pont(125) >>
            ELSE << Pont(123) >> \o Quebra(indent)
                   \o StringifyProps(v.o, 1, indent)
                   \o Quebra(indent) \o << Pont(125) >>

StringifyItens(a, i, indent) ==
    IF i = Len(a)
    THEN Stringify(a[i], indent)
    ELSE Stringify(a[i], indent) \o << Pont(44) >> \o Quebra(indent)
           \o StringifyItens(a, i + 1, indent)

StringifyProps(o, i, indent) ==
    LET prop == << Aspas(o[i].k), Pont(58) >> \o Espaco(indent)
                  \o Stringify(o[i].v, indent)
    IN  IF i = Len(o)
        THEN prop
        ELSE prop \o << Pont(44) >> \o Quebra(indent)
               \o StringifyProps(o, i + 1, indent)

\* /\s/: the white-space characters
EhBranco(c) == c \in {9, 10, 11, 12, 13, 32}

\* str.replace(/\s/g, ''): every white-space character is removed, those
\* between the tokens and those inside the quoted strings
SemBrancos(txt) ==
    LET semRuns == SelectSeq(txt, LAMBDA tok : tok.tk /= "w")
    IN  [i \in 1..Len(semRuns) |->
            IF semRuns[i].tk = "s"
            THEN Aspas(SelectSeq(semRuns[i].s, LAMBDA c : ~EhBranco(c)))
            ELSE semRuns[i]]

RECURSIVE Soma(_, _)
Soma(s, i) == IF i > Len(s) THEN 0 ELSE s[i] + Soma(s, i + 1)

\* the decimal digits of a number, as character codes
RECURSIVE Digitos(_)
Digitos(n) ==
    IF n < 10 THEN << 48 + n >> ELSE Digitos(n \div 10) \o << 48 + (n % 10) >>

\* the characters of one token
Caracteres(tok) ==
    CASE tok.tk = "p" -> << tok.c >>
      [] tok.tk = "s" -> << 34 >> \o tok.s \o << 34 >>
      [] tok.tk = "n" -> Digitos(tok.n)
      [] tok.tk = "z" -> << 110, 117, 108, 108 >>
      [] tok.tk = "w" -> tok.s

\* mutation: every token weighted by its position in the text
RECURSIVE SomaCodigosPosicional(_, _, _)
SomaCodigosPosicional(txt, i, j) ==
    IF i > j THEN 0
    ELSE IF i = j THEN i * Soma(Caracteres(txt[i]), 1)
    ELSE LET m == (i + j) \div 2
         IN  SomaCodigosPosicional(txt, i, m)
               + SomaCodigosPosicional(txt, m + 1, j)

\* hash += str.charCodeAt(i), over the characters of the tokens i..j of
\* the text; the sum is taken by halves, the order of an addition of
\* naturals below 2^53 being without effect
RECURSIVE SomaCodigos(_, _, _)
SomaCodigos(txt, i, j) ==
    IF i > j THEN 0
    ELSE IF i = j THEN Soma(Caracteres(txt[i]), 1)
    ELSE LET m == (i + j) \div 2
         IN  SomaCodigos(txt, i, m) + SomaCodigos(txt, m + 1, j)

\* hash.toString(16)
RECURSIVE Hex(_)
Hex(n) ==
    LET d == n % 16
        c == IF d < 10 THEN 48 + d ELSE 87 + d
    IN  IF n < 16 THEN << c >> ELSE Hex(n \div 16) \o << c >>

\* mutation: the quoted strings left out of the sum
gerarChecksumSoValores(objeto) ==
    LET str == SelectSeq(SemBrancos(Stringify(objeto, FALSE)),
                         LAMBDA tok : tok.tk /= "s")
    IN  Hex(SomaCodigos(str, 1, Len(str)))

\* gerarChecksumSimples
gerarChecksumSimples(objeto) ==
    LET str == SemBrancos(Stringify(objeto, FALSE))
    IN  Hex(SomaCodigos(str, 1, Len(str)))

\* JSON.parse: the position after the white space at position i
RECURSIVE Pula(_, _)
Pula(txt, i) ==
    IF i <= Len(txt) /\ txt[i].tk = "w" THEN Pula(txt, i + 1) ELSE i

\* is the token at position i the punctuation character c
EhPont(txt, i, c) ==
    /\ i <= Len(txt)
    /\ txt[i].tk = "p"
    /\ txt[i].c = c

Lido(v, i) == [ok |-> TRUE, v |-> v, i |-> i]
NaoLido == [ok |-> FALSE, v |-> JNull, i |-> 0]

\* JSON.parse: the value that starts at position i0 and the position after
\* it, or a syntax error
RECURSIVE ParseValor(_, _)
RECURSIVE ParseItens(_, _, _)
RECURSIVE ParseProps(_, _, _)
ParseValor(txt, i0) ==
    LET i == Pula(txt, i0)
    IN  IF i > Len(txt) THEN NaoLido
        ELSE CASE txt[i].tk = "n" -> Lido(JNum(txt[i].n), i + 1)
               [] txt[i].tk = "s" -> Lido(JStr(txt[i].s), i + 1)
               [] txt[i].tk = "z" -> Lido(JNull, i + 1)
               [] EhPont(txt, i, 91) ->
                     IF EhPont(txt, Pula(txt, i + 1), 93)
                     THEN Lido(JArr(<< >>), Pula(txt, i + 1) + 1)
                     ELSE ParseItens(txt, i + 1, << >>)
               [] EhPont(txt, i, 123) ->
                     IF EhPont(txt, Pula(txt, i + 1), 125)
                     THEN Lido(JObj(<< >>), Pula(txt, i + 1) + 1)
                     ELSE ParseProps(txt, i + 1, << >>)
               [] OTHER -> NaoLido

ParseItens(txt, i, acc) ==
    LET r == ParseValor(txt, i)
        j == Pula(txt, r.i)
    IN  IF ~r.ok THEN NaoLido
        ELSE IF EhPont(txt, j, 44)
        THEN ParseItens(txt, j + 1, Append(acc, r.v))
        ELSE IF EhPont(txt, j, 93)
        THEN Lido(JArr(Append(acc, r.v)), j + 1)
        ELSE NaoLido

ParseProps(txt, i, acc) ==
    LET k == Pula(txt, i)
        c == Pula(txt, k + 1)
        r == ParseValor(txt, c + 1)
        j == Pula(txt, r.i)
        prop == [k |-> txt[k].s, v |-> r.v]
    IN  IF k > Len(txt) \/ txt[k].tk /= "s" THEN NaoLido
        ELSE IF ~EhPont(txt, c, 58) THEN NaoLido
        ELSE IF ~r.ok THEN NaoLido
        ELSE IF EhPont(txt, j, 44)
        THEN ParseProps(txt, j + 1, Append(acc, prop))
        ELSE IF EhPont(txt, j, 125)
        THEN Lido(JObj(Append(acc, prop)), j + 1)
        ELSE NaoLido

\* JSON.parse of a whole text
JSONparse(txt) ==
    LET r == ParseValor(txt, 1)
    IN  IF r.ok /\ Pula(txt, r.i) = Len(txt) + 1 THEN r ELSE NaoLido

\* ---- records as the objects the stores hold ----
\* The descriptive fields, which no transaction reads, have one value each.

\* a stored book: the object literal of handleSalvarLivro, then the key
LivroObj(l) ==
    JObj(<< Prop("titulo", JStr(Letras("Dom Casmurro"))),
            Prop("autor", JStr(Letras("Machado"))),
            Prop("isbn", JStr(Letras(l.isbn))),
            Prop("quantidadeTotal", JNum(l.quantidadeTotal)),
            Prop("quantidadeDisponivel", JNum(l.quantidadeDisponivel)),
            Prop("id", JNum(l.id)) >>)

\* a stored student: the object literal of handleSalvarAluno, then the key
AlunoObj(a) ==
    JObj(<< Prop("nome", JStr(Letras("Capitu"))),
            Prop("matricula", JStr(Letras(a.matricula))),
            Prop("turma", JStr(Letras("1A"))),
            Prop("id", JNum(a.id)) >>)

\* a stored loan: the object literal of handleRegistrarEmprestimo, then
\* the key
EmprestimoObj(e) ==
    JObj(<< Prop("idLivro", JNum(e.idLivro)),
            Prop("idAluno", JNum(e.idAluno)),
            Prop("dataEmprestimo", JStr(Letras("2024-03-01"))),
            Prop("dataPrevistaDevolucao", JStr(Letras("2024-03-02"))),
            Prop("dataDevolucaoReal",
                 IF e.dataDevolucaoReal = Null THEN JNull
                 ELSE JStr(Letras(e.dataDevolucaoReal))),
            Prop("status", JStr(Letras(e.status))),
            Prop("id", JNum(e.id)) >>)

\* the value of the model that is spelled s
Simbolo(valores, s) == CHOOSE x \in valores : Letras(x) = s

\* the fields of an object that the store model keeps
LivroDeObj(obj) ==
    [id |-> Campo(obj, "id").n,
     isbn |-> Simbolo(Isbns, Campo(obj, "isbn").s),
     quantidadeTotal |-> Campo(obj, "quantidadeTotal").n,
     quantidadeDisponivel |-> Campo(obj, "quantidadeDisponivel").n]

AlunoDeObj(obj) ==
    [id |-> Campo(obj, "id").n,
     matricula |-> Simbolo(Matriculas, Campo(obj, "matricula").s)]

EmprestimoDeObj(obj) ==
    [id |-> Campo(obj, "id").n,
     idLivro |-> Campo(obj, "idLivro").n,
     idAluno |-> Campo(obj, "idAluno").n,
     dataDevolucaoReal |->
         IF Campo(obj, "dataDevolucaoReal").t = "null" THEN Null
         ELSE Simbolo(Datas, Campo(obj, "dataDevolucaoReal").s),
     status |-> Simbolo(StatusValues, Campo(obj, "status").s)]

\* getAll: the records of a store in the order of their keys
RECURSIVE GetAll(_)
GetAll(store) ==
    IF DOMAIN store = {} THEN << >>
    ELSE LET k == CHOOSE x \in DOMAIN store : \A y \in DOMAIN store : x <= y
         IN  << store[k] >> \o GetAll(Remove(store, k))

\* ---- backup payload and its validation (script.js) ----

\* exportarDados: the payload of the three arrays an export returned, with
\* its checksum computed before the checksum property exists
MontaPayload(dados) ==
    LET l == GetAll(dados.livros)
        a == GetAll(dados.alunos)
        e == GetAll(dados.emprestimos)
        ls == [i \in DOMAIN l |-> LivroObj(l[i])]
        as == [i \in DOMAIN a |-> AlunoObj(a[i])]
        es == [i \in DOMAIN e |-> EmprestimoObj(e[i])]
        payload ==
            JObj(<< Prop("versao", JStr(Letras("1.0"))),
                    Prop("dataExportacao",
                         JStr(Letras("2024-03-05T12:00:00.000Z"))),
                    Prop("totalRegistros", JNum(Len(ls) + Len(as) + Len(es))),
                    Prop("livros", JArr(ls)),
                    Prop("alunos", JArr(as)),
                    Prop("emprestimos", JArr(es)) >>)
    IN  ComCampo(payload, "checksum", JStr(gerarChecksumSimples(payload)))

\* the records DB.importAllData puts, of a payload that passed validation
DadosDe(json) ==
    LET l == Campo(json, "livros").a
        a == Campo(json, "alunos").a
        e == Campo(json, "emprestimos").a
    IN  [livros |-> [i \in DOMAIN l |-> LivroDeObj(l[i])],
         alunos |-> [i \in DOMAIN a |-> AlunoDeObj(a[i])],
         emprestimos |-> [i \in DOMAIN e |-> EmprestimoDeObj(e[i])]]

\* the arrays of an export, as DB.importAllData takes them for the rollback
DadosDoBackup(dados) ==
    [livros |-> GetAll(dados.livros), alunos |-> GetAll(dados.alunos),
     emprestimos |-> GetAll(dados.emprestimos)]

\* a thrown Error: its kind and the values its message is built from
Erro(res, partes) == [res |-> res, partes |-> partes]
Valido == Erro("ok", {})

\* !json[k]: the property is absent, null, the empty string or zero
Falsy(json, k) ==
    \/ ~TemCampo(json, k)
    \/ Campo(json, k).t = "null"
    \/ Campo(json, k).t = "str" /\ Campo(json, k).s = << >>
    \/ Campo(json, k).t = "num" /\ Campo(json, k).n = 0

\* 2) the root fields
RaizInvalida(json) ==
    \/ Falsy(json, "versao")
    \/ Falsy(json, "dataExportacao")
    \/ ~TemCampo(json, "totalRegistros")
    \/ Falsy(json, "checksum")

\* Array.isArray(json[k])
EhArray(json, k) == TemCampo(json, k) /\ Campo(json, k).t = "arr"

\* 3) the three collections are arrays
ColecoesCorrompidas(json) ==
    \/ ~EhArray(json, "livros")
    \/ ~EhArray(json, "alunos")
    \/ ~EhArray(json, "emprestimos")

\* 6) json.totalRegistros !== somaReal
TotalNaoConfere(json) ==
    LET somaReal == Len(Campo(json, "livros").a) + Len(Campo(json, "alunos").a)
                      + Len(Campo(json, "emprestimos").a)
        total == Campo(json, "totalRegistros")
    IN  ~(total.t = "num" /\ total.n = somaReal)

\* 7) checksumOriginal !== checksumCalculado, the checksum recomputed over
\* the payload without its checksum property
ChecksumInvalido(json) ==
    LET checksumOriginal == Campo(json, "checksum")
        checksumCalculado == gerarChecksumSimples(SemCampo(json, "checksum"))
    IN  ~(checksumOriginal.t = "str" /\ checksumOriginal.s = checksumCalculado)

\* validarEstrutura: the first item that is no object, or the first
\* required field missing in an item, in the order of the array and of
\* camposObrigatorios
RECURSIVE PrimeiroCampoAusente(_, _, _)
PrimeiroCampoAusente(item, camposObrigatorios, j) ==
    IF j > Len(camposObrigatorios) THEN Valido
    ELSE IF ~TemCampo(item, camposObrigatorios[j])
    THEN Erro("MissingField", {Letras(camposObrigatorios[j])})
    ELSE PrimeiroCampoAusente(item, camposObrigatorios, j + 1)

RECURSIVE validarEstrutura(_, _, _)
validarEstrutura(array, camposObrigatorios, i) ==
    IF i > Len(array) THEN Valido
    ELSE IF array[i].t \notin {"obj", "arr"}
    THEN Erro("InvalidItem", {})
    ELSE LET item == IF array[i].t = "obj" THEN array[i] ELSE JObj(<< >>)
             r == PrimeiroCampoAusente(item, camposObrigatorios, 1)
         IN  IF r.res /= "ok" THEN r
             ELSE validarEstrutura(array, camposObrigatorios, i + 1)

CamposLivro ==
    << "id", "titulo", "autor", "isbn", "quantidadeTotal",
       "quantidadeDisponivel" >>
CamposAluno == << "id", "nome", "matricula", "turma" >>
CamposEmprestimo ==
    << "id", "idLivro", "idAluno", "dataEmprestimo", "dataPrevistaDevolucao",
       "status" >>

\* mutation: the checksum never compared
validarBackupSemChecksum(json) ==
    IF RaizInvalida(json) THEN Erro("MalformedRoot", {})
    ELSE IF ColecoesCorrompidas(json) THEN Erro("CorruptCollections", {})
    ELSE IF TotalNaoConfere(json) THEN Erro("CountMismatch", {})
    ELSE
      LET l == validarEstrutura(Campo(json, "livros").a, CamposLivro, 1)
          a == validarEstrutura(Campo(json, "alunos").a, CamposAluno, 1)
          e == validarEstrutura(Campo(json, "emprestimos").a,
                                CamposEmprestimo, 1)
      IN  IF l.res /= "ok" THEN l
          ELSE IF a.res /= "ok" THEN a
          ELSE e

\* mutation: the checksum compared before the total of records
validarBackupChecksumPrimeiro(json) ==
    IF RaizInvalida(json) THEN Erro("MalformedRoot", {})
    ELSE IF ColecoesCorrompidas(json) THEN Erro("CorruptCollections", {})
    ELSE IF ChecksumInvalido(json) THEN Erro("ChecksumMismatch", {})
    ELSE IF TotalNaoConfere(json) THEN Erro("CountMismatch", {})
    ELSE Valido

\* validarBackup: the first check that fails throws
validarBackup(json) ==
    IF RaizInvalida(json) THEN Erro("MalformedRoot", {})
    ELSE IF ColecoesCorrompidas(json) THEN Erro("CorruptCollections", {})
    ELSE IF TotalNaoConfere(json) THEN Erro("CountMismatch", {})
    ELSE IF ChecksumInvalido(json) THEN Erro("ChecksumMismatch", {})
    ELSE
      LET l == validarEstrutura(Campo(json, "livros").a, CamposLivro, 1)
          a == validarEstrutura(Campo(json, "alunos").a, CamposAluno, 1)
          e == validarEstrutura(Campo(json, "emprestimos").a,
                                CamposEmprestimo, 1)
      IN  IF l.res /= "ok" THEN l
          ELSE IF a.res /= "ok" THEN a
          ELSE e

\* ---- form handlers (script.js) ----

\* mutation: the availability of the form's record, never adjusted
NovoDisponivelSemAjuste(store, idInput, qtdTotal) == qtdTotal

\* handleSalvarLivro: the quantidadeDisponivel of the record to save.  A new
\* book gets qtdTotal.  An edit adds the change of the total to the old
\* availability; when the old record is gone the read of its field throws,
\* the catch only logs, and the value stays qtdTotal.
NovoDisponivel(store, idInput, qtdTotal) ==
    IF idInput /= NoId /\ idInput \in DOMAIN store
    THEN store[idInput].quantidadeDisponivel
            + (qtdTotal - store[idInput].quantidadeTotal)
    ELSE qtdTotal

\* handleSalvarLivro: the early return of an edit
EdicaoRejeitada(store, idInput, qtdTotal) ==
    /\ idInput /= NoId
    /\ idInput \in DOMAIN store
    /\ NovoDisponivel(store, idInput, qtdTotal) < 0

\* handleRegistrarEmprestimo: the candidate loan built from the form
NovoEmprestimo(idLivro, idAluno) ==
    [id |-> NoId, idLivro |-> idLivro, idAluno |-> idAluno,
     dataDevolucaoReal |-> Null, status |-> "ativo"]

\* the last handler that called the data layer, how that call ended, the
\* key it returned and the write request a storage fault hit
Registro(op, res, ret, falha) ==
    [op |-> op, res |-> res, ret |-> ret,
     falha |-> IF res = "StorageFault" THEN falha ELSE 0]

\* the three collections of a database, without its key generators
Conteudo(db) ==
    [livros |-> db.livros, alunos |-> db.alunos,
     emprestimos |-> db.emprestimos]

\* of the contents cs, those that agree with the collections a running
\* export has read so far (pc names the collection it reads next)
Coerentes(cs, pc, lido) ==
    {c \in cs :
        /\ c.livros = lido.livros
        /\ pc \in {"emprestimos", "fim"} => c.alunos = lido.alunos
        /\ pc = "fim" => c.emprestimos = lido.emprestimos}

\* the stores after a DB operation with outcome out; while an export is
\* between two of its reads, the content committed is one more content the
\* database has held during the export
Commit(out) ==
    /\ livros' = out.db.livros
    /\ alunos' = out.db.alunos
    /\ emprestimos' = out.db.emprestimos
    /\ keyGen' = out.db.gen
    /\ everIds' = [livros |-> everIds.livros \cup DOMAIN out.db.livros,
                   alunos |-> everIds.alunos \cup DOMAIN out.db.alunos,
                   emprestimos |->
                       everIds.emprestimos \cup DOMAIN out.db.emprestimos]
    /\ vistos' = IF exportPc \in {"alunos", "emprestimos"}
                 THEN Coerentes(vistos \cup {Conteudo(out.db)},
                                exportPc, exportado)
                 ELSE vistos

\* the calls of the data layer a handler can await at one time
Slots == 1..MaxEmCurso

\* no call awaited
Livre ==
    [est |-> "livre", op |-> "", arg |-> << >>, falha |-> 0, res |-> "",
     ret |-> NoId]

\* a call whose transaction is created and waits for its turn
Chamada(op, arg, falha) ==
    [est |-> "fila", op |-> op, arg |-> arg, falha |-> falha, res |-> "",
     ret |-> NoId]

\* the result of an export before its first read
NadaLido ==
    [livros |-> EmptyStore, alunos |-> EmptyStore, emprestimos |-> EmptyStore]

Init ==
    /\ livros = EmptyStore
    /\ alunos = EmptyStore
    /\ emprestimos = EmptyStore
    /\ keyGen = [livros |-> 1, alunos |-> 1, emprestimos |-> 1]
    /\ everIds = [livros |-> {}, alunos |-> {}, emprestimos |-> {}]
    /\ formLivroId = NoId
    /\ formAlunoId = NoId
    /\ last = Registro("init", "ok", NoId, 0)
    /\ exportPc = "idle"
    /\ exportado = NadaLido
    /\ vistos = {}
    /\ importPc = "idle"
    /\ arquivo = << >>
    /\ jsonLido = JNull
    /\ chamadas = [s \in Slots |-> Livre]
    /\ fila = << >>

handleSalvarLivro(isbn, qtdTotal) ==
    LET idInput == formLivroId
        livro == [id |-> idInput, isbn |-> isbn,
                  quantidadeTotal |-> qtdTotal,
                  quantidadeDisponivel |->
                      NovoDisponivel(livros, idInput, qtdTotal)]
        out == DB_saveLivro(CurrentDB, livro)
    IN  /\ idInput = NoId => keyGen.livros <= MaxLivros
        /\ IF EdicaoRejeitada(livros, idInput, qtdTotal)
           THEN /\ last' = Registro("handleSalvarLivro", "rejeitado", NoId, 0)
                /\ UNCHANGED <<livros, alunos, emprestimos, keyGen, everIds,
                               formLivroId, formAlunoId, vistos>>
                /\ UNCHANGED backupVars
           ELSE /\ Commit(out)
                /\ formLivroId' = IF out.res = "ok" THEN NoId ELSE formLivroId
                /\ last' = Registro("handleSalvarLivro", out.res, out.ret, 0)
                /\ UNCHANGED formAlunoId
                /\ UNCHANGED backupVars

editarLivro(id) ==
    /\ id \in DOMAIN livros
    /\ formLivroId' = id
    /\ UNCHANGED <<livros, alunos, emprestimos, keyGen, everIds, formAlunoId,
                   last, vistos>>
    /\ UNCHANGED backupVars

resetFormLivro ==
    /\ formLivroId /= NoId
    /\ formLivroId' = NoId
    /\ UNCHANGED <<livros, alunos, emprestimos, keyGen, everIds, formAlunoId,
                   last, vistos>>
    /\ UNCHANGED backupVars

excluirLivro(id) ==
    LET out == DB_deleteLivro(CurrentDB, id)
    IN  /\ Commit(out)
        /\ last' = Registro("excluirLivro", out.res, NoId, 0)
        /\ UNCHANGED <<formLivroId, formAlunoId>>
        /\ UNCHANGED backupVars

handleSalvarAluno(matricula) ==
    LET idInput == formAlunoId
        aluno == [id |-> idInput, matricula |-> matricula]
        out == DB_saveAluno(CurrentDB, aluno)
    IN  /\ idInput = NoId => keyGen.alunos <= MaxAlunos
        /\ Commit(out)
        /\ formAlunoId' = IF out.res = "ok" THEN NoId ELSE formAlunoId
        /\ last' = Registro("handleSalvarAluno", out.res, out.ret, 0)
        /\ UNCHANGED formLivroId
        /\ UNCHANGED backupVars

editarAluno(id) ==
    /\ id \in DOMAIN alunos
    /\ formAlunoId' = id
    /\ UNCHANGED <<livros, alunos, emprestimos, keyGen, everIds, formLivroId,
                   last, vistos>>
    /\ UNCHANGED backupVars

resetFormAluno ==
    /\ formAlunoId /= NoId
    /\ formAlunoId' = NoId
    /\ UNCHANGED <<livros, alunos, emprestimos, keyGen, everIds, formLivroId,
                   last, vistos>>
    /\ UNCHANGED backupVars

excluirAluno(id) ==
    LET out == DB_deleteAluno(CurrentDB, id)
    IN  /\ Commit(out)
        /\ last' = Registro("excluirAluno", out.res, NoId, 0)
        /\ UNCHANGED <<formLivroId, formAlunoId>>
        /\ UNCHANGED backupVars

handleRegistrarEmprestimo(idLivro, idAluno, falha) ==
    LET emprestimo == NovoEmprestimo(idLivro, idAluno)
        out == DB_registrarEmprestimo(CurrentDB, emprestimo, falha)
    IN  /\ keyGen.emprestimos <= MaxEmprestimos
        /\ Commit(out)
        /\ last' = Registro("handleRegistrarEmprestimo", out.res, out.ret, falha)
        /\ UNCHANGED <<formLivroId, formAlunoId>>
        /\ UNCHANGED backupVars

registrarDevolucao(idEmprestimo, dataDevolucaoReal, falha) ==
    LET out == DB_registrarDevolucao(CurrentDB, idEmprestimo,
                                     dataDevolucaoReal, falha)
    IN  /\ Commit(out)
        /\ last' = Registro("registrarDevolucao", out.res, NoId, falha)
        /\ UNCHANGED <<formLivroId, formAlunoId>>
        /\ UNCHANGED backupVars

\* ---- calls in flight ----
\* A handler runs up to its await of a call of the data layer; the call
\* creates its transaction, and IndexedDB runs the transactions whose
\* scopes overlap one at a time in the order of their creation (every
\* transaction here has the store livros in its scope).  The handler
\* resumes when the promise of the call settles.

\* DB.getById('livros', id): one readonly transaction with one get; the
\* result is the record, here in a sequence of one, or undefined, here the
\* empty sequence
DB_getByIdLivro(db, id) ==
    Outcome(db, "ok",
            IF id \in DOMAIN db.livros THEN <<db.livros[id]>> ELSE << >>)

\* the transaction of call c run on db
Executa(db, c) ==
    CASE c.op = "registrarEmprestimo" ->
           DB_registrarEmprestimo(db, c.arg, c.falha)
      [] c.op = "registrarDevolucao" ->
           DB_registrarDevolucao(db, c.arg.id, c.arg.data, c.falha)
      [] c.op = "getById" -> DB_getByIdLivro(db, c.arg.id)
      [] c.op = "save" -> DB_saveLivro(db, c.arg)

\* handleRegistrarEmprestimo up to await DB.registrarEmprestimo(...)
registrarEmprestimoInicia(s, idLivro, idAluno, falha) ==
    /\ chamadas[s].est = "livre"
    /\ keyGen.emprestimos <= MaxEmprestimos
    /\ chamadas' = [chamadas EXCEPT ![s] =
                       Chamada("registrarEmprestimo",
                               NovoEmprestimo(idLivro, idAluno), falha)]
    /\ fila' = Append(fila, s)
    /\ UNCHANGED <<livros, alunos, emprestimos, keyGen, everIds,
                   formLivroId, formAlunoId, last, exportPc, exportado,
                   vistos, importPc, arquivo, jsonLido>>

\* registrarDevolucao up to await DB.registrarDevolucao(...)
registrarDevolucaoInicia(s, idEmprestimo, dataDevolucaoReal, falha) ==
    /\ chamadas[s].est = "livre"
    /\ chamadas' = [chamadas EXCEPT ![s] =
                       Chamada("registrarDevolucao",
                               [id |-> idEmprestimo,
                                data |-> dataDevolucaoReal], falha)]
    /\ fila' = Append(fila, s)
    /\ UNCHANGED <<livros, alunos, emprestimos, keyGen, everIds,
                   formLivroId, formAlunoId, last, exportPc, exportado,
                   vistos, importPc, arquivo, jsonLido>>

\* handleSalvarLivro of an edit up to await DB.getById('livros', livro.id)
handleSalvarLivroGetById(s, isbn, qtdTotal) ==
    /\ formLivroId /= NoId
    /\ chamadas[s].est = "livre"
    /\ chamadas' = [chamadas EXCEPT ![s] =
                       Chamada("getById",
                               [id |-> formLivroId, isbn |-> isbn,
                                quantidadeTotal |-> qtdTotal], 0)]
    /\ fila' = Append(fila, s)
    /\ UNCHANGED <<livros, alunos, emprestimos, keyGen, everIds,
                   formLivroId, formAlunoId, last, exportPc, exportado,
                   vistos, importPc, arquivo, jsonLido>>

\* mutation: the transaction created last runs first
transactionExecutaUltima ==
    /\ fila /= << >>
    /\ LET s == fila[Len(fila)]
           out == Executa(CurrentDB, chamadas[s])
       IN  /\ Commit(out)
           /\ chamadas' = [chamadas EXCEPT
                             ![s].est = IF out.res = "Pendente"
                                        THEN "suspensa" ELSE "feito",
                             ![s].res = out.res,
                             ![s].ret = out.ret]
    /\ fila' = SubSeq(fila, 1, Len(fila) - 1)
    /\ UNCHANGED <<formLivroId, formAlunoId, last, exportPc, exportado,
                   importPc, arquivo, jsonLido>>

\* the transaction at the head of the queue runs to its end; the promise
\* of its call settles unless the transaction aborted with no request
\* failed and no handler for the abort set
transactionExecuta ==
    /\ fila /= << >>
    /\ LET s == Head(fila)
           out == Executa(CurrentDB, chamadas[s])
       IN  /\ Commit(out)
           /\ chamadas' = [chamadas EXCEPT
                             ![s].est = IF out.res = "Pendente"
                                        THEN "suspensa" ELSE "feito",
                             ![s].res = out.res,
                             ![s].ret = out.ret]
    /\ fila' = Tail(fila)
    /\ UNCHANGED <<formLivroId, formAlunoId, last, exportPc, exportado,
                   importPc, arquivo, jsonLido>>

\* handleSalvarLivro of an edit after await DB.getById: the availability
\* is computed from the record read, and the edit is rejected or goes on
\* to await DB.save('livros', livro)
handleSalvarLivroAposGetById(s) ==
    LET c == chamadas[s]
        lido == IF c.ret = << >> THEN EmptyStore ELSE (c.arg.id :> c.ret[1])
        livro == [id |-> c.arg.id, isbn |-> c.arg.isbn,
                  quantidadeTotal |-> c.arg.quantidadeTotal,
                  quantidadeDisponivel |->
                      NovoDisponivel(lido, c.arg.id, c.arg.quantidadeTotal)]
    IN  /\ c.est = "feito"
        /\ c.op = "getById"
        /\ IF EdicaoRejeitada(lido, c.arg.id, c.arg.quantidadeTotal)
           THEN /\ chamadas' = [chamadas EXCEPT ![s] = Livre]
                /\ last' = Registro("handleSalvarLivro", "rejeitado", NoId, 0)
                /\ UNCHANGED fila
           ELSE /\ chamadas' = [chamadas EXCEPT ![s] =
                                   Chamada("save", livro, 0)]
                /\ fila' = Append(fila, s)
                /\ UNCHANGED last
        /\ UNCHANGED <<livros, alunos, emprestimos, keyGen, everIds,
                       formLivroId, formAlunoId, exportPc, exportado,
                       vistos, importPc, arquivo, jsonLido>>

\* a handler after its awaited call settled: handleSalvarLivro after
\* DB.save, handleRegistrarEmprestimo, registrarDevolucao
handlerRetoma(s) ==
    LET c == chamadas[s]
    IN  /\ c.est = "feito"
        /\ c.op /= "getById"
        /\ chamadas' = [chamadas EXCEPT ![s] = Livre]
        /\ last' = Registro(CASE c.op = "save" -> "handleSalvarLivro"
                              [] c.op = "registrarEmprestimo" ->
                                   "handleRegistrarEmprestimo"
                              [] OTHER -> "registrarDevolucao",
                            c.res, c.ret, c.falha)
        /\ formLivroId' = IF c.op = "save" /\ c.res = "ok"
                          THEN NoId ELSE formLivroId
        /\ UNCHANGED <<livros, alunos, emprestimos, keyGen, everIds,
                       formAlunoId, fila, exportPc, exportado, vistos,
                       importPc, arquivo, jsonLido>>

\* ---- backup export (db.js exportAllData, script.js exportarDados) ----
\* DB.exportAllData reads the three stores in three readonly transactions,
\* one after the other's result; a handler that runs between two of them
\* commits between them.  The first transaction is created in the call
\* itself.  One backup operation, export or import, runs at a time.

\* exportarDados: the call of exportAllData and its first read,
\* getStoreData('livros')
exportAllData ==
    /\ exportPc = "idle"
    /\ importPc = "idle"
    /\ exportPc' = "alunos"
    /\ exportado' = [NadaLido EXCEPT !.livros = livros]
    /\ vistos' = {Conteudo(CurrentDB)}
    /\ UNCHANGED <<chamadas, fila>>
    /\ UNCHANGED <<livros, alunos, emprestimos, keyGen, everIds,
                   formLivroId, formAlunoId, last, importPc, arquivo,
                   jsonLido>>

\* exportAllData: getStoreData('alunos')
getStoreDataAlunos ==
    /\ exportPc = "alunos"
    /\ exportPc' = "emprestimos"
    /\ exportado' = [exportado EXCEPT !.alunos = alunos]
    /\ vistos' = Coerentes(vistos, exportPc', exportado')
    /\ UNCHANGED <<chamadas, fila>>
    /\ UNCHANGED <<livros, alunos, emprestimos, keyGen, everIds,
                   formLivroId, formAlunoId, last, importPc, arquivo,
                   jsonLido>>

\* exportAllData: getStoreData('emprestimos') and the return of the triple
getStoreDataEmprestimos ==
    /\ exportPc = "emprestimos"
    /\ exportPc' = "fim"
    /\ exportado' = [exportado EXCEPT !.emprestimos = emprestimos]
    /\ vistos' = Coerentes(vistos, exportPc', exportado')
    /\ UNCHANGED <<chamadas, fila>>
    /\ UNCHANGED <<livros, alunos, emprestimos, keyGen, everIds,
                   formLivroId, formAlunoId, last, importPc, arquivo,
                   jsonLido>>

\* exportarDados after the await: the payload is built and downloaded
exportarDados ==
    /\ exportPc = "fim"
    /\ importPc = "idle"
    /\ exportPc' = "idle"
    /\ exportado' = NadaLido
    /\ vistos' = {}
    /\ last' = Registro("exportarDados", "ok", NoId, 0)
    /\ UNCHANGED <<chamadas, fila>>
    /\ UNCHANGED <<livros, alunos, emprestimos, keyGen, everIds,
                   formLivroId, formAlunoId, importPc, arquivo,
                   jsonLido>>

\* ---- the backup files handed to the import ----

\* a content with one book, one student and one active loan of that book
DadosExemplo ==
    [livros |-> (1 :> [id |-> 1, isbn |-> "isbn-a", quantidadeTotal |-> 1,
                       quantidadeDisponivel |-> 0]),
     alunos |-> (1 :> [id |-> 1, matricula |-> "mat-a"]),
     emprestimos |-> (1 :> [id |-> 1, idLivro |-> 1, idAluno |-> 1,
                            dataDevolucaoReal |-> Null, status |-> "ativo"])]

\* two books under different keys with one isbn, as only a file can hold
DadosIsbnRepetido ==
    [livros |-> (1 :> [id |-> 1, isbn |-> "isbn-b", quantidadeTotal |-> 1,
                       quantidadeDisponivel |-> 1])
                @@ (2 :> [id |-> 2, isbn |-> "isbn-b", quantidadeTotal |-> 1,
                          quantidadeDisponivel |-> 1]),
     alunos |-> EmptyStore,
     emprestimos |-> EmptyStore]

NomesRaiz ==
    {"versao", "dataExportacao", "totalRegistros", "livros", "alunos",
     "emprestimos", "checksum"}
NomesColecao == {"livros", "alunos", "emprestimos"}
NomesRegistro ==
    {"id", "titulo", "autor", "isbn", "quantidadeTotal",
     "quantidadeDisponivel", "nome", "matricula", "turma", "idLivro",
     "idAluno", "dataEmprestimo", "dataPrevistaDevolucao",
     "dataDevolucaoReal", "status"}

\* the values an edit of the file puts in the place of v
Alternativas(v) ==
    CASE v.t = "num" -> {JNum(v.n + 1)}
      [] v.t = "str" ->
            {JStr(Letras("DomCasmurro")), JStr(Letras("Capitu"))} \ {v}
      [] v.t = "null" -> {JStr(Letras("2024-03-01"))}
      [] OTHER -> {JStr(Letras("Capitu"))}

\* json with item i of collection c replaced
TrocaItem(json, c, i, item) ==
    ComCampo(json, c, JArr([Campo(json, c).a EXCEPT ![i] = item]))

\* the positions of the records of json: collection and index
Itens(json) ==
    UNION {{<<c, i>> : i \in 1..Len(Campo(json, c).a)} :
             c \in {x \in NomesColecao : EhArray(json, x)}}

\* the files that differ from json in the value of one field, of the root
\* (not the checksum) or of a record
EdicoesDeValor(json) ==
    UNION {{ComCampo(json, k, v) : v \in Alternativas(Campo(json, k))} :
             k \in {x \in NomesRaiz \ {"checksum"} : TemCampo(json, x)}}
    \cup
    UNION {UNION {{TrocaItem(json, ci[1], ci[2],
                             ComCampo(Campo(json, ci[1]).a[ci[2]], k, v)) :
                     v \in Alternativas(Campo(Campo(json, ci[1]).a[ci[2]], k))} :
                    k \in {x \in NomesRegistro :
                             TemCampo(Campo(json, ci[1]).a[ci[2]], x)}} :
             ci \in Itens(json)}

\* the files that lack one field json has, of the root or of a record
EdicoesDeCampo(json) ==
    {SemCampo(json, k) : k \in {x \in NomesRaiz : TemCampo(json, x)}}
    \cup
    UNION {{TrocaItem(json, ci[1], ci[2],
                      SemCampo(Campo(json, ci[1]).a[ci[2]], k)) :
              k \in {x \in NomesRegistro :
                       TemCampo(Campo(json, ci[1]).a[ci[2]], x)}} :
             ci \in Itens(json)}

\* json with its checksum computed again, as the test of the missing
\* field does
Reassina(json) ==
    LET semChecksum == SemCampo(json, "checksum")
    IN  ComCampo(semChecksum, "checksum",
                 JStr(gerarChecksumSimples(semChecksum)))

\* json with the properties of the root and of every record in the
\* opposite order
Reverso(seq) == [i \in 1..Len(seq) |-> seq[Len(seq) + 1 - i]]
ReversoObj(obj) ==
    JObj([i \in 1..Len(obj.o) |->
            LET p == obj.o[Len(obj.o) + 1 - i]
            IN  IF p.v.t = "arr"
                THEN [k |-> p.k,
                      v |-> JArr([j \in 1..Len(p.v.a) |->
                                    IF p.v.a[j].t = "obj"
                                    THEN JObj(Reverso(p.v.a[j].o))
                                    ELSE p.v.a[j]])]
                ELSE p])

\* the payloads of the files of the validation: the export of the example,
\* its single edits, the same with the checksum computed again, and the
\* single edits with a root field removed or the total changed as well
PayloadsValidacao ==
    LET base == MontaPayload(DadosExemplo)
        e1 == EdicoesDeValor(base) \cup EdicoesDeCampo(base)
        e2 == {SemCampo(q, "versao") : q \in e1}
              \cup {ComCampo(q, "totalRegistros", JNum(7)) : q \in e1}
    IN  {base, ReversoObj(base), MontaPayload(NadaLido)}
        \cup e1 \cup {Reassina(q) : q \in e1} \cup e2

\* a text that is no JSON: an object that is never closed
TextoTruncado == << Pont(123), Aspas(Letras("versao")), Pont(58) >>

\* the files of the validation, written with indentation as exportarDados
\* writes them, the export of the example also without
ArquivosValidacao ==
    {Stringify(q, TRUE) : q \in PayloadsValidacao}
    \cup {Stringify(MontaPayload(DadosExemplo), FALSE), TextoTruncado}

\* the files of the import: two exports, a file whose books collide on the
\* unique isbn, a file with a changed record, and a text that is no JSON
ArquivosImport ==
    {Stringify(MontaPayload(DadosExemplo), TRUE),
     Stringify(MontaPayload(NadaLido), TRUE),
     Stringify(MontaPayload(DadosIsbnRepetido), TRUE),
     Stringify(ComCampo(MontaPayload(DadosExemplo), "versao",
                        JStr(Letras("Capitu"))), TRUE),
     TextoTruncado}

\* a content no sequence of handlers leaves: a book with more copies
\* available than it has, and a returned loan without its date
DadosIncoerentes ==
    [livros |-> (1 :> [id |-> 1, isbn |-> "isbn-a", quantidadeTotal |-> 1,
                       quantidadeDisponivel |-> 2]),
     alunos |-> (1 :> [id |-> 1, matricula |-> "mat-a"]),
     emprestimos |-> (1 :> [id |-> 1, idLivro |-> 1, idAluno |-> 1,
                            dataDevolucaoReal |-> Null,
                            status |-> "devolvido"])]

\* the files of the import, and a file written by hand with that content
\* and the checksum of its text
ArquivosRestauracao ==
    ArquivosImport \cup {Stringify(MontaPayload(DadosIncoerentes), TRUE)}

\* what reader.onload computes from a file before it touches the stores:
\* json = JSON.parse(e.target.result) and, when that does not throw,
\* validarBackup(json)
Leitura(texto) ==
    LET r == JSONparse(texto)
    IN  [r |-> r,
         v |-> IF r.ok THEN validarBackup(r.v) ELSE Erro("ParseError", {})]

\* ---- backup import (script.js handleImportarDados) ----

\* handleImportarDados: the file chosen is handed to the FileReader
handleImportarDados(texto) ==
    /\ importPc = "idle"
    /\ exportPc = "idle"
    /\ importPc' = "lendo"
    /\ arquivo' = texto
    /\ UNCHANGED <<chamadas, fila>>
    /\ UNCHANGED <<livros, alunos, emprestimos, keyGen, everIds,
                   formLivroId, formAlunoId, last, exportPc, exportado,
                   vistos, jsonLido>>

\* reader.onload up to its first await: JSON.parse, validarBackup, the
\* confirm dialog, answered with one of respostas, and the call of
\* exportAllData for the temporary backup with its first read
readerOnload(respostas) ==
    LET lido == Leitura(arquivo)
    IN  /\ importPc = "lendo"
        /\ IF lido.v.res /= "ok"
           THEN /\ importPc' = "idle"
                /\ last' = Registro("handleImportarDados", lido.v.res, NoId, 0)
                /\ UNCHANGED <<exportPc, exportado, vistos, jsonLido>>
           ELSE \E confirma \in respostas :
                  IF confirma
                  THEN /\ importPc' = "backup"
                       /\ jsonLido' = lido.r.v
                       /\ exportPc' = "alunos"
                       /\ exportado' = [NadaLido EXCEPT !.livros = livros]
                       /\ vistos' = {Conteudo(CurrentDB)}
                       /\ UNCHANGED last
                  ELSE /\ importPc' = "idle"
                       /\ last' = Registro("handleImportarDados", "cancelado",
                                           NoId, 0)
                       /\ UNCHANGED <<exportPc, exportado, vistos, jsonLido>>
        /\ UNCHANGED <<livros, alunos, emprestimos, keyGen, everIds,
                       formLivroId, formAlunoId, arquivo, chamadas, fila>>

\* handleImportarDados: await DB.exportAllData() rejects, a getAll request
\* of the temporary backup having failed; the outer catch reports the
\* error of the request
exportAllDataFalha ==
    /\ importPc = "backup"
    /\ exportPc \in {"alunos", "emprestimos"}
    /\ importPc' = "idle"
    /\ exportPc' = "idle"
    /\ exportado' = NadaLido
    /\ vistos' = {}
    /\ jsonLido' = JNull
    /\ last' = Registro("exportAllData", "StorageFault", NoId, 1)
    /\ UNCHANGED <<chamadas, fila>>
    /\ UNCHANGED <<livros, alunos, emprestimos, keyGen, everIds,
                   formLivroId, formAlunoId, arquivo>>

\* mutation: the import not awaiting the temporary backup
importAllDataSemBackup(falha) ==
    LET out == DB_importAllData(CurrentDB, DadosDe(jsonLido), falha)
    IN  /\ importPc = "backup"
        /\ Commit(out)
        /\ IF out.res = "ok"
           THEN /\ importPc' = "idle"
                /\ exportPc' = "idle"
                /\ exportado' = NadaLido
                /\ jsonLido' = JNull
                /\ last' = Registro("handleImportarDados", "ok", NoId, 0)
           ELSE /\ importPc' = "rollback"
                /\ last' = Registro("importAllData", out.res, NoId, falha)
                /\ UNCHANGED <<exportPc, exportado, jsonLido>>
        /\ UNCHANGED <<formLivroId, formAlunoId, arquivo, chamadas, fila>>

\* handleImportarDados: await DB.importAllData(json)
importAllData(falha) ==
    LET out == DB_importAllData(CurrentDB, DadosDe(jsonLido), falha)
    IN  /\ importPc = "backup"
        /\ exportPc = "fim"
        /\ Commit(out)
        /\ IF out.res = "ok"
           THEN /\ importPc' = "idle"
                /\ exportPc' = "idle"
                /\ exportado' = NadaLido
                /\ jsonLido' = JNull
                /\ last' = Registro("handleImportarDados", "ok", NoId, 0)
           ELSE /\ importPc' = "rollback"
                /\ last' = Registro("importAllData", out.res, NoId, falha)
                /\ UNCHANGED <<exportPc, exportado, jsonLido>>
        /\ UNCHANGED <<formLivroId, formAlunoId, arquivo, chamadas, fila>>

\* handleImportarDados: await DB.importAllData(backupTemporario) in the
\* catch of the failed import, and the Error that reaches the outer catch
rollback(falha) ==
    LET out == DB_importAllData(CurrentDB, DadosDoBackup(exportado), falha)
    IN  /\ importPc = "rollback"
        /\ Commit(out)
        /\ importPc' = "idle"
        /\ exportPc' = "idle"
        /\ exportado' = NadaLido
        /\ jsonLido' = JNull
        /\ last' = IF out.res = "ok"
                   THEN Registro("handleImportarDados", "RolledBack", NoId, 0)
                   ELSE Registro("rollback", out.res, NoId, falha)
        /\ UNCHANGED <<formLivroId, formAlunoId, arquivo, chamadas, fila>>

\* the toast a finished run of the import shows, from what the run
\* recorded: the success toast, or the error toast with the message of the
\* Error that reached the outer catch (the Error thrown after a rollback,
\* the Error of a validation, or the error of the failed request of the
\* rollback or of the temporary backup); a declined dialog shows nothing
ToastImportar(reg) ==
    CASE reg.res = "ok" ->
           [tipo |-> "success",
            texto |-> <<"Restauração concluída com sucesso!">>]
      [] reg.res = "RolledBack" ->
           [tipo |-> "error",
            texto |-> <<"Erro na restauração: ",
                        "Erro durante a gravação no banco. Rollback executado com sucesso.">>]
      [] reg.res = "cancelado" -> [tipo |-> Null, texto |-> <<>>]
      [] OTHER ->
           [tipo |-> "error", texto |-> <<"Erro na restauração: ", reg.res>>]

\* every book and student record DB.save can be handed
ItensLivro ==
    [id : 0..MaxLivros, isbn : Isbns, quantidadeTotal : QtdInputs,
     quantidadeDisponivel : QtdInputs]

ItensAluno == [id : 0..MaxAlunos, matricula : Matriculas]

\* every candidate loan DB.registrarEmprestimo can be handed
Candidatos ==
    [id : 0..MaxEmprestimos, idLivro : 1..MaxLivros, idAluno : IdsAluno,
     dataDevolucaoReal : {Null} \cup Datas, status : StatusValues]

\* the candidates of the form, and the same candidates carrying a key
CandidatosAtivos ==
    [id : 0..MaxEmprestimos, idLivro : 1..MaxLivros, idAluno : IdsAluno,
     dataDevolucaoReal : {Null}, status : {"ativo"}]

\* the handlers of the book catalogue and of the loans
Next ==
    \/ \E isbn \in Isbns, q \in QtdInputs : handleSalvarLivro(isbn, q)
    \/ \E id \in 1..MaxLivros : editarLivro(id)
    \/ resetFormLivro
    \/ \E id \in 1..MaxLivros : excluirLivro(id)
    \/ \E l \in 1..MaxLivros, a \in IdsAluno, f \in 0..2 :
          handleRegistrarEmprestimo(l, a, f)
    \/ \E e \in 1..MaxEmprestimos, d \in Datas, f \in 0..2 :
          registrarDevolucao(e, d, f)

\* the handlers of the student register; they touch no other store, and no
\* other handler opens the alunos store
NextAlunos ==
    \/ \E m \in Matriculas : handleSalvarAluno(m)
    \/ \E id \in 1..MaxAlunos : editarAluno(id)
    \/ resetFormAluno
    \/ \E id \in 1..MaxAlunos : excluirAluno(id)

\* the two registers alone: the forms of books and of students
NextCadastro ==
    \/ \E isbn \in Isbns, q \in QtdInputs : handleSalvarLivro(isbn, q)
    \/ \E id \in 1..MaxLivros : editarLivro(id)
    \/ resetFormLivro
    \/ \E id \in 1..MaxLivros : excluirLivro(id)
    \/ NextAlunos

\* the backup: the handlers that fill the three stores, and the export
NextBackup ==
    \/ \E isbn \in Isbns, q \in QtdInputs : handleSalvarLivro(isbn, q)
    \/ \E m \in Matriculas : handleSalvarAluno(m)
    \/ \E l \in 1..MaxLivros, a \in IdsAluno, f \in 0..2 :
          handleRegistrarEmprestimo(l, a, f)
    \/ \E e \in 1..MaxEmprestimos, d \in Datas, f \in 0..2 :
          registrarDevolucao(e, d, f)
    \/ exportAllData
    \/ getStoreDataAlunos
    \/ getStoreDataEmprestimos
    \/ exportarDados

\* the validation of backup files: files are chosen and read, and the
\* dialog that asks before the restore is answered no
NextValidacao ==
    \/ \E texto \in ArquivosValidacao : handleImportarDados(texto)
    \/ readerOnload({FALSE})

\* the import: books and loans, and the import of a file with its
\* temporary backup and its rollback
NextImport ==
    \/ \E isbn \in Isbns, q \in QtdInputs : handleSalvarLivro(isbn, q)
    \/ \E l \in 1..MaxLivros, a \in IdsAluno :
          handleRegistrarEmprestimo(l, a, 0)
    \/ \E texto \in ArquivosImport : handleImportarDados(texto)
    \/ readerOnload(BOOLEAN)
    \/ getStoreDataAlunos
    \/ getStoreDataEmprestimos
    \/ exportAllDataFalha
    \/ \E f \in 0..2 : importAllData(f)
    \/ \E f \in 0..2 : rollback(f)

\* the import with book saves and checkouts that commit before a run or
\* between the last read of its temporary backup and DB.importAllData(json):
\* their transactions are created while that read is pending, and run
\* after it and before the transaction of the import
NextRollback ==
    \/ \E isbn \in Isbns, q \in QtdInputs :
          /\ importPc = "idle" \/ (importPc = "backup" /\ exportPc = "fim")
          /\ handleSalvarLivro(isbn, q)
    \/ \E l \in 1..MaxLivros, a \in IdsAluno :
          /\ importPc = "idle" \/ (importPc = "backup" /\ exportPc = "fim")
          /\ handleRegistrarEmprestimo(l, a, 0)
    \/ \E texto \in ArquivosImport : handleImportarDados(texto)
    \/ readerOnload({TRUE})
    \/ getStoreDataAlunos
    \/ getStoreDataEmprestimos
    \/ \E f \in 0..2 : importAllData(f)
    \/ rollback(0)

\* the import run alone: book saves and checkouts commit between the
\* runs, never during one
NextRestauracao ==
    \/ \E isbn \in Isbns, q \in QtdInputs :
          importPc = "idle" /\ handleSalvarLivro(isbn, q)
    \/ \E l \in 1..MaxLivros, a \in IdsAluno :
          importPc = "idle" /\ handleRegistrarEmprestimo(l, a, 0)
    \/ \E texto \in ArquivosRestauracao : handleImportarDados(texto)
    \/ readerOnload({TRUE})
    \/ getStoreDataAlunos
    \/ getStoreDataEmprestimos
    \/ \E f \in 0..2 : importAllData(f)
    \/ \E f \in 0..2 : rollback(f)

\* the loans with their awaited calls in flight: books are created, and
\* checkouts and returns wait for their transactions, which a fault can
\* abort at commit time
NextEmCurso ==
    \/ \E isbn \in Isbns, q \in QtdInputs :
          formLivroId = NoId /\ handleSalvarLivro(isbn, q)
    \/ \E s \in Slots, l \in 1..MaxLivros, a \in IdsAluno, f \in {0, 3} :
          registrarEmprestimoInicia(s, l, a, f)
    \/ \E s \in Slots, e \in 1..MaxEmprestimos, d \in Datas, f \in {0, 3} :
          registrarDevolucaoInicia(s, e, d, f)
    \/ transactionExecuta
    \/ \E s \in Slots : handlerRetoma(s)

\* the edit of a book with its two awaited calls, among checkouts and
\* returns in flight; the form is submitted with the isbn it was loaded
\* with and any total
NextEdicao ==
    \/ \E isbn \in Isbns, q \in QtdInputs :
          formLivroId = NoId /\ handleSalvarLivro(isbn, q)
    \/ \E id \in 1..MaxLivros : editarLivro(id)
    \/ \E s \in Slots, q \in QtdInputs :
          /\ formLivroId \in DOMAIN livros
          /\ handleSalvarLivroGetById(s, livros[formLivroId].isbn, q)
    \/ \E s \in Slots : handleSalvarLivroAposGetById(s)
    \/ \E s \in Slots, l \in 1..MaxLivros, a \in IdsAluno :
          registrarEmprestimoInicia(s, l, a, 0)
    \/ \E s \in Slots, e \in 1..MaxEmprestimos, d \in Datas :
          registrarDevolucaoInicia(s, e, d, 0)
    \/ transactionExecuta
    \/ \E s \in Slots : handlerRetoma(s)

Spec == Init /\ [][Next]_vars

SpecEmCurso == Init /\ [][NextEmCurso]_vars

\* the calls in flight with IndexedDB running every queued transaction and
\* every handler resuming once its promise has settled
SpecEmCursoJusto ==
    /\ SpecEmCurso
    /\ WF_vars(transactionExecuta)
    /\ WF_vars(\E s \in Slots : handlerRetoma(s))

SpecEdicao == Init /\ [][NextEdicao]_vars

SpecValidacao == Init /\ [][NextValidacao]_vars

SpecImport == Init /\ [][NextImport]_vars

\* the steps that end an awaited DB.importAllData: of the file once the
\* temporary backup is read, and of the temporary backup in the rollback
importAllDataSettles ==
    /\ importPc = "backup"
    /\ exportPc = "fim"
    /\ importPc' \in {"idle", "rollback"}

rollbackSettles ==
    /\ importPc = "rollback"
    /\ importPc' = "idle"

\* the import with its awaited promises settled: IndexedDB answers every
\* request of exportAllData (db.js:78-79), and the promise of importAllData
\* settles on complete, on error and on abort (db.js:96-98)
SpecImportJusto ==
    /\ SpecImport
    /\ WF_vars(getStoreDataAlunos \/ getStoreDataEmprestimos
                  \/ exportAllDataFalha)
    /\ WF_importPc(importAllDataSettles)
    /\ WF_importPc(rollbackSettles)

SpecRollback == Init /\ [][NextRollback]_vars

SpecRestauracao == Init /\ [][NextRestauracao]_vars

SpecBackup == Init /\ [][NextBackup]_vars

SpecCadastro == Init /\ [][NextCadastro]_vars

\* ---- properties ----

\* the three collections and the key generators: what a reader of the
\* database can observe
SameDB(a, b) ==
    /\ a.livros = b.livros
    /\ a.alunos = b.alunos
    /\ a.emprestimos = b.emprestimos
    /\ a.gen = b.gen

\* C1: every stored book has 0 <= quantidadeDisponivel <= quantidadeTotal,
\* in every state the book and loan handlers can reach.
C1_DisponivelDentroDoTotal ==
    \A id \in DOMAIN livros :
        /\ 0 <= livros[id].quantidadeDisponivel
        /\ livros[id].quantidadeDisponivel <= livros[id].quantidadeTotal

\* C2: a checkout of a book that is absent or has no available copy fails
\* with Unavailable and leaves books, students, loans and key generators as
\* they were, for the candidate of the form with or without a key, and
\* whether or not a storage fault would have hit a later write.
C2_CheckoutIndisponivel ==
    \A c \in CandidatosAtivos :
        (\/ c.idLivro \notin DOMAIN livros
         \/ livros[c.idLivro].quantidadeDisponivel <= 0)
        => \A f \in 0..2 :
             LET out == DB_registrarEmprestimo(CurrentDB, c, f)
             IN  /\ out.res = "Unavailable"
                 /\ SameDB(out.db, CurrentDB)

\* C2 witness: a checkout has just failed with Unavailable on a book that
\* is stored with no available copy.
C2_Witness ==
    /\ last.op = "handleRegistrarEmprestimo"
    /\ last.res = "Unavailable"
    /\ \E id \in DOMAIN livros : livros[id].quantidadeDisponivel = 0

\* C3 as claimed: a successful checkout takes exactly one copy and adds
\* exactly one loan, and that loan is active with no return date whatever
\* status and return date the candidate carried.
C3_EmprestimoSempreAtivo ==
    \A c \in Candidatos :
        LET out == DB_registrarEmprestimo(CurrentDB, c, 0)
        IN  out.res = "ok" =>
              /\ out.db.livros[c.idLivro].quantidadeDisponivel
                    = livros[c.idLivro].quantidadeDisponivel - 1
              /\ DOMAIN out.db.emprestimos = DOMAIN emprestimos \cup {out.ret}
              /\ out.ret \notin DOMAIN emprestimos
              /\ out.db.emprestimos[out.ret].status = "ativo"
              /\ out.db.emprestimos[out.ret].dataDevolucaoReal = Null

\* C3 amended: a checkout of a stored book with an available copy, with a
\* free loan key and no storage fault, succeeds; it takes exactly one copy
\* of that book, leaves every other book and every stored loan as it was,
\* and adds exactly one loan, which is the candidate as passed with its key;
\* the candidate handleRegistrarEmprestimo builds is active with no return
\* date, so the loan it creates is.
C3_EmprestimoGravaCandidato ==
    /\ \A c \in Candidatos :
        LET out == DB_registrarEmprestimo(CurrentDB, c, 0)
            key == IF c.id = NoId THEN keyGen.emprestimos ELSE c.id
        IN  /\ ( /\ c.idLivro \in DOMAIN livros
                 /\ livros[c.idLivro].quantidadeDisponivel > 0
                 /\ key \notin DOMAIN emprestimos ) => out.res = "ok"
            /\ out.res = "ok" =>
                 /\ out.ret = key
                 /\ DOMAIN out.db.livros = DOMAIN livros
                 /\ out.db.livros[c.idLivro] =
                      [livros[c.idLivro] EXCEPT
                          !.quantidadeDisponivel = @ - 1]
                 /\ \A b \in DOMAIN livros \ {c.idLivro} :
                      out.db.livros[b] = livros[b]
                 /\ key \notin DOMAIN emprestimos
                 /\ DOMAIN out.db.emprestimos = DOMAIN emprestimos \cup {key}
                 /\ \A e \in DOMAIN emprestimos :
                      out.db.emprestimos[e] = emprestimos[e]
                 /\ out.db.emprestimos[key] = [c EXCEPT !.id = key]
                 /\ out.db.alunos = alunos
    /\ \A l \in 1..MaxLivros, a \in IdsAluno :
        /\ NovoEmprestimo(l, a).status = "ativo"
        /\ NovoEmprestimo(l, a).dataDevolucaoReal = Null
        /\ NovoEmprestimo(l, a) \in Candidatos

\* C3 witness: the form handler has just checked a book out; the loan it
\* returned the key of is stored and active.
C3_Witness ==
    /\ last.op = "handleRegistrarEmprestimo"
    /\ last.res = "ok"
    /\ last.ret \in DOMAIN emprestimos
    /\ emprestimos[last.ret].status = "ativo"
    /\ emprestimos[last.ret].idLivro \in DOMAIN livros

\* C4: a return of an active loan, with no storage fault, succeeds; it sets
\* the loan's status to devolvido and its return date to the given date and
\* changes nothing else of the loans; when the loan's book is stored it adds
\* exactly one available copy to that book, and when the book is gone the
\* books are left as they were.
C4_DevolucaoDeAtivo ==
    \A e \in DOMAIN emprestimos, d \in Datas :
        emprestimos[e].status = "ativo" =>
          LET out == DB_registrarDevolucao(CurrentDB, e, d, 0)
              b == emprestimos[e].idLivro
          IN  /\ out.res = "ok"
              /\ out.db.emprestimos =
                   [emprestimos EXCEPT ![e].status = "devolvido",
                                       ![e].dataDevolucaoReal = d]
              /\ b \in DOMAIN livros =>
                   out.db.livros =
                     [livros EXCEPT ![b].quantidadeDisponivel = @ + 1]
              /\ b \notin DOMAIN livros => out.db.livros = livros
              /\ out.db.alunos = alunos

\* C4 witness: a return has just succeeded and the returned loan's book is
\* stored.
C4_Witness ==
    /\ last.op = "registrarDevolucao"
    /\ last.res = "ok"
    /\ \E e \in DOMAIN emprestimos :
        /\ emprestimos[e].status = "devolvido"
        /\ emprestimos[e].idLivro \in DOMAIN livros

\* C5: a return of a loan key that is absent, or whose loan is already
\* devolvido, fails with InvalidLoanState and changes nothing, so a second
\* return keeps the first return's date and the book's available copies.
C5_DevolucaoInvalida ==
    \A e \in 1..MaxEmprestimos, d \in Datas, f \in 0..2 :
        (\/ e \notin DOMAIN emprestimos
         \/ emprestimos[e].status = "devolvido")
        => LET out == DB_registrarDevolucao(CurrentDB, e, d, f)
           IN  /\ out.res = "InvalidLoanState"
               /\ SameDB(out.db, CurrentDB)

\* C5 witness: a return has just failed with InvalidLoanState while a
\* returned loan is stored.
C5_Witness ==
    /\ last.op = "registrarDevolucao"
    /\ last.res = "InvalidLoanState"
    /\ \E e \in DOMAIN emprestimos : emprestimos[e].status = "devolvido"

C8_TudoOuNada ==
    /\ \A c \in CandidatosAtivos, f \in 0..2 :
        LET out == DB_registrarEmprestimo(CurrentDB, c, f)
            key == IF c.id = NoId THEN keyGen.emprestimos ELSE c.id
        IN  /\ ( /\ c.idLivro \in DOMAIN livros
                 /\ livros[c.idLivro].quantidadeDisponivel > 0
                 /\ (f > 0 \/ key \in DOMAIN emprestimos) )
               => out.res \in {"StorageFault", "ConstraintViolation"}
            /\ out.res /= "ok" => SameDB(out.db, CurrentDB)
    /\ \A e \in DOMAIN emprestimos, d \in Datas, f \in 0..2 :
        LET out == DB_registrarDevolucao(CurrentDB, e, d, f)
        IN  /\ ( /\ emprestimos[e].status = "ativo"
                 /\ (f = 1 \/ (f = 2 /\ emprestimos[e].idLivro
                                           \in DOMAIN livros)) )
               => out.res = "StorageFault"
            /\ out.res /= "ok" => SameDB(out.db, CurrentDB)

\* C8 witness: a return has just failed on its second write, the book
\* write, after the loan had been marked; the loan is stored active.
C8_Witness ==
    /\ last.op = "registrarDevolucao"
    /\ last.res = "StorageFault"
    /\ last.falha = 2
    /\ \E e \in DOMAIN emprestimos :
        /\ emprestimos[e].status = "ativo"
        /\ emprestimos[e].idLivro \in DOMAIN livros

\* C9: a save of a book whose isbn, or of a student whose matricula, is
\* held by a different stored record fails with ConstraintViolation and
\* leaves the database as it was; a save of a stored record with its own
\* unique value succeeds; no two stored books share an isbn and no two
\* stored students share a matricula.
C9_IndicesUnicos ==
    /\ \A i \in ItensLivro :
        LET out == DB_saveLivro(CurrentDB, i)
            key == IF i.id = NoId THEN keyGen.livros ELSE i.id
        IN  /\ (\E k \in DOMAIN livros : k /= key /\ livros[k].isbn = i.isbn)
               => /\ out.res = "ConstraintViolation"
                  /\ SameDB(out.db, CurrentDB)
            /\ (i.id \in DOMAIN livros /\ livros[i.id].isbn = i.isbn)
               => out.res = "ok"
    /\ \A i \in ItensAluno :
        LET out == DB_saveAluno(CurrentDB, i)
            key == IF i.id = NoId THEN keyGen.alunos ELSE i.id
        IN  /\ (\E k \in DOMAIN alunos :
                   k /= key /\ alunos[k].matricula = i.matricula)
               => /\ out.res = "ConstraintViolation"
                  /\ SameDB(out.db, CurrentDB)
            /\ (i.id \in DOMAIN alunos /\ alunos[i.id].matricula = i.matricula)
               => out.res = "ok"
    /\ \A j, k \in DOMAIN livros : livros[j].isbn = livros[k].isbn => j = k
    /\ \A j, k \in DOMAIN alunos :
        alunos[j].matricula = alunos[k].matricula => j = k

\* C9 witness: a save of a book has just been refused with
\* ConstraintViolation while two books and two students are stored.
C9_Witness ==
    /\ last.op = "handleSalvarLivro"
    /\ last.res = "ConstraintViolation"
    /\ Cardinality(DOMAIN livros) = 2
    /\ Cardinality(DOMAIN alunos) = 2

\* C10: a successful save of an item without id stores it under a key no
\* record of the collection has or ever had, returns that key and leaves
\* every other record as it was; a successful save of an item with an id
\* writes the record of that id, returns that id and leaves every other
\* record as it was.
C10_SaveChave ==
    /\ \A i \in ItensLivro :
        LET out == DB_saveLivro(CurrentDB, i)
        IN  out.res = "ok" =>
              /\ i.id = NoId => /\ out.ret \notin everIds.livros
                                /\ out.ret \notin DOMAIN livros
                                /\ out.ret /= NoId
              /\ i.id /= NoId => out.ret = i.id
              /\ DOMAIN out.db.livros = DOMAIN livros \cup {out.ret}
              /\ out.db.livros[out.ret] = [i EXCEPT !.id = out.ret]
              /\ \A k \in DOMAIN livros \ {out.ret} :
                   out.db.livros[k] = livros[k]
              /\ out.db.alunos = alunos
              /\ out.db.emprestimos = emprestimos
    /\ \A i \in ItensAluno :
        LET out == DB_saveAluno(CurrentDB, i)
        IN  out.res = "ok" =>
              /\ i.id = NoId => /\ out.ret \notin everIds.alunos
                                /\ out.ret \notin DOMAIN alunos
                                /\ out.ret /= NoId
              /\ i.id /= NoId => out.ret = i.id
              /\ DOMAIN out.db.alunos = DOMAIN alunos \cup {out.ret}
              /\ out.db.alunos[out.ret] = [i EXCEPT !.id = out.ret]
              /\ \A k \in DOMAIN alunos \ {out.ret} :
                   out.db.alunos[k] = alunos[k]
              /\ out.db.livros = livros
              /\ out.db.emprestimos = emprestimos

\* C10 witness: a save without id has just stored a new book under the key
\* it returned, and an earlier book of the collection has been deleted.
C10_Witness ==
    /\ last.op = "handleSalvarLivro"
    /\ last.res = "ok"
    /\ last.ret \in DOMAIN livros
    /\ last.ret = keyGen.livros - 1
    /\ \E k \in everIds.livros : k \notin DOMAIN livros /\ k < last.ret

\* C11: a delete of a key that is not stored succeeds and leaves the
\* database as it was, and a second delete of a key after a first succeeds
\* and leaves the database as the first left it, for books and students.
C11_DeleteIdempotente ==
    /\ \A id \in 1..MaxLivros :
        LET o1 == DB_deleteLivro(CurrentDB, id)
            o2 == DB_deleteLivro(o1.db, id)
        IN  /\ o1.res = "ok"
            /\ o2.res = "ok"
            /\ id \notin DOMAIN o1.db.livros
            /\ SameDB(o2.db, o1.db)
            /\ id \notin DOMAIN livros => SameDB(o1.db, CurrentDB)
    /\ \A id \in 1..MaxAlunos :
        LET o1 == DB_deleteAluno(CurrentDB, id)
            o2 == DB_deleteAluno(o1.db, id)
        IN  /\ o1.res = "ok"
            /\ o2.res = "ok"
            /\ id \notin DOMAIN o1.db.alunos
            /\ SameDB(o2.db, o1.db)
            /\ id \notin DOMAIN alunos => SameDB(o1.db, CurrentDB)

\* C11 witness: excluirLivro has just succeeded although no book was ever
\* removed from the collection, so the key it deleted was not stored, and
\* the stored books are still there.
C11_Witness ==
    /\ last.op = "excluirLivro"
    /\ last.res = "ok"
    /\ everIds.livros = DOMAIN livros
    /\ DOMAIN livros /= {}

\* C12: a delete of a book or of a student succeeds whatever loans refer
\* to it and leaves every loan record as it was.
C12_DeleteNaoTocaEmprestimos ==
    /\ \A id \in 1..MaxLivros :
        LET out == DB_deleteLivro(CurrentDB, id)
        IN  /\ out.res = "ok"
            /\ out.db.emprestimos = emprestimos
    /\ \A id \in 1..MaxAlunos :
        LET out == DB_deleteAluno(CurrentDB, id)
        IN  /\ out.res = "ok"
            /\ out.db.emprestimos = emprestimos

\* C12 witness: excluirLivro has just succeeded and an active loan of a
\* book that is no longer stored is still there.
C12_Witness ==
    /\ last.op = "excluirLivro"
    /\ last.res = "ok"
    /\ \E e \in DOMAIN emprestimos :
        /\ emprestimos[e].status = "ativo"
        /\ emprestimos[e].idLivro \notin DOMAIN livros
        /\ emprestimos[e].idLivro \in everIds.livros

\* C13: the triple an export returns is the content the database held
\* at one instant between the export's first read and its last.
C13_ExportInstantaneo ==
    exportPc = "fim" => exportado \in vistos

\* C14: a call of DB.importAllData that fails, the import of the file or
\* the restore of the temporary backup, leaves the three collections and
\* their key generators as they were before the call; and a call fails
\* when one of its puts is made to fail or meets a record of the same
\* unique field, whatever was put before.
C14_ImportAtomico ==
    /\ [][(/\ importPc \in {"backup", "rollback"}
            /\ importPc' /= importPc
            /\ last'.op \in {"importAllData", "rollback"})
           => UNCHANGED <<livros, alunos, emprestimos, keyGen>>]_vars
    /\ [](importPc \in {"backup", "rollback"} =>
            LET data == IF importPc = "backup"
                        THEN DadosDe(jsonLido)
                        ELSE DadosDoBackup(exportado)
                puts == Len(data.livros) + Len(data.alunos)
                          + Len(data.emprestimos)
                repetido ==
                    \/ \E i, j \in DOMAIN data.livros :
                          i /= j /\ data.livros[i].isbn = data.livros[j].isbn
                    \/ \E i, j \in DOMAIN data.alunos :
                          /\ i /= j
                          /\ data.alunos[i].matricula = data.alunos[j].matricula
            IN  \A falha \in 0..2 :
                  LET out == DB_importAllData(CurrentDB, data, falha)
                  IN  /\ falha \in 1..puts => out.res /= "ok"
                      /\ repetido => out.res /= "ok"
                      /\ out.res /= "ok" => SameDB(out.db, CurrentDB)
                      /\ out.res = "ok" =>
                            /\ DOMAIN out.db.livros
                                 = {data.livros[i].id : i \in DOMAIN data.livros}
                            /\ Cardinality(DOMAIN out.db.livros)
                                 = Len(data.livros))

\* C14 witness: the import of the file with two books of one isbn has just
\* failed on its second put, after the clears and the first put, and the
\* books the database held before are stored.
C14_Witness ==
    /\ importPc = "rollback"
    /\ last.op = "importAllData"
    /\ last.res = "ConstraintViolation"
    /\ DOMAIN livros /= {}
    /\ \A k \in DOMAIN livros : livros[k].isbn /= "isbn-b"

\* C15: the payload exportarDados builds from the triple an export
\* returned, written as the file is written and parsed back, is the same
\* payload and passes validarBackup, and DB.importAllData of it on the
\* database as it is by then succeeds and leaves in the three collections
\* the records of the triple and no other.
C15_IdaEVolta ==
    exportPc = "fim" =>
        LET payload == MontaPayload(exportado)
            r == JSONparse(Stringify(payload, TRUE))
            out == DB_importAllData(CurrentDB, DadosDe(r.v), 0)
        IN  /\ r.ok
            /\ r.v = payload
            /\ validarBackup(r.v) = Valido
            /\ out.res = "ok"
            /\ Conteudo(out.db) = exportado

\* C15 witness: an export has returned a book, a student and a loan, the
\* content of the database at one instant, and the database has changed
\* since.
C15_Witness ==
    /\ exportPc = "fim"
    /\ exportado \in vistos
    /\ exportado.livros /= EmptyStore
    /\ exportado.alunos /= EmptyStore
    /\ exportado.emprestimos /= EmptyStore
    /\ Conteudo(CurrentDB).livros /= exportado.livros
    /\ Conteudo(CurrentDB).emprestimos /= exportado.emprestimos

\* C16: a file that differs from an export in the value of one field, of a
\* record or of the root other than the checksum, and still passes the
\* checks of the root fields, of the collections and of the total, is
\* rejected by validarBackup with ChecksumMismatch.
C16_EdicaoDetectada ==
    (importPc = "idle" /\ last.op = "handleImportarDados") =>
        LET lido == Leitura(arquivo)
        IN  (/\ lido.r.ok
             /\ lido.r.v \in EdicoesDeValor(MontaPayload(DadosExemplo))
             /\ ~RaizInvalida(lido.r.v)
             /\ ~ColecoesCorrompidas(lido.r.v)
             /\ ~TotalNaoConfere(lido.r.v))
            => last.res = "ChecksumMismatch"

\* C17: validarBackup reports the first check that fails, in the order
\* root fields, collections, total of records, checksum, required fields
\* of the records, whatever later checks the file fails as well.
C17_PrimeiraFalha ==
    (/\ importPc = "idle"
     /\ last.op = "handleImportarDados"
     /\ Leitura(arquivo).r.ok)
    => LET json == Leitura(arquivo).r.v
           raiz == RaizInvalida(json)
           colecoes == ~raiz /\ ColecoesCorrompidas(json)
           total == ~raiz /\ ~colecoes /\ TotalNaoConfere(json)
           checksum == ~raiz /\ ~colecoes /\ ~total /\ ChecksumInvalido(json)
           campos ==
               /\ ~raiz /\ ~colecoes /\ ~total /\ ~checksum
               /\ \/ \E i \in DOMAIN Campo(json, "livros").a,
                        j \in DOMAIN CamposLivro :
                        ~TemCampo(Campo(json, "livros").a[i], CamposLivro[j])
                  \/ \E i \in DOMAIN Campo(json, "alunos").a,
                        j \in DOMAIN CamposAluno :
                        ~TemCampo(Campo(json, "alunos").a[i], CamposAluno[j])
                  \/ \E i \in DOMAIN Campo(json, "emprestimos").a,
                        j \in DOMAIN CamposEmprestimo :
                        ~TemCampo(Campo(json, "emprestimos").a[i],
                                  CamposEmprestimo[j])
       IN  /\ raiz => last.res = "MalformedRoot"
           /\ colecoes => last.res = "CorruptCollections"
           /\ total => last.res = "CountMismatch"
           /\ checksum => last.res = "ChecksumMismatch"
           /\ campos => last.res = "MissingField"
           /\ last.res \in {"MalformedRoot", "CorruptCollections",
                            "CountMismatch", "ChecksumMismatch",
                            "MissingField", "cancelado"}
           /\ last.res = "cancelado" =>
                 ~(raiz \/ colecoes \/ total \/ checksum \/ campos)

\* C17 witness: a file whose total of records and whose checksum are both
\* wrong has been rejected for its total.
C17_Witness ==
    /\ importPc = "idle"
    /\ last.op = "handleImportarDados"
    /\ last.res = "CountMismatch"
    /\ Leitura(arquivo).r.ok
    /\ ChecksumInvalido(Leitura(arquivo).r.v)

\* C18: a file with a correct checksum in which a record lacks a required
\* field is rejected with MissingField, and the reason names the field
\* that is missing and the collection of the record.
C18_CampoEColecao ==
    (/\ importPc = "idle"
     /\ last.op = "handleImportarDados"
     /\ last.res = "MissingField")
    => LET lido == Leitura(arquivo)
       IN  \E c \in NomesColecao, campo \in NomesRegistro :
             /\ \E i \in DOMAIN Campo(lido.r.v, c).a :
                   ~TemCampo(Campo(lido.r.v, c).a[i], campo)
             /\ Letras(campo) \in lido.v.partes
             /\ Letras(c) \in lido.v.partes

\* C19: the checksum of a payload read from a file is the checksum of the
\* same payload with the properties of the root and of every record in the
\* opposite order, of the payload read from the file written again with
\* and without indentation, and of the payload after validarBackup has
\* deleted its checksum property and put it back.
C19_ChecksumEstavel ==
    (/\ importPc = "idle"
     /\ last.op = "handleImportarDados"
     /\ Leitura(arquivo).r.ok)
    => LET json == Leitura(arquivo).r.v
           recuado == JSONparse(Stringify(json, TRUE))
           compacto == JSONparse(Stringify(json, FALSE))
       IN  /\ gerarChecksumSimples(ReversoObj(json))
                = gerarChecksumSimples(json)
           /\ recuado.ok /\ compacto.ok
           /\ gerarChecksumSimples(recuado.v) = gerarChecksumSimples(json)
           /\ gerarChecksumSimples(compacto.v) = gerarChecksumSimples(json)
           /\ TemCampo(json, "checksum") =>
                 gerarChecksumSimples(ComCampo(SemCampo(json, "checksum"),
                                               "checksum",
                                               Campo(json, "checksum")))
                   = gerarChecksumSimples(json)

\* C19 witness: the file of the example export with every object's
\* properties in the opposite order, its checksum still the one computed
\* in the order of the export, has passed validarBackup.
C19_Witness ==
    /\ importPc = "idle"
    /\ last.op = "handleImportarDados"
    /\ last.res = "cancelado"
    /\ Leitura(arquivo).r.v = ReversoObj(MontaPayload(DadosExemplo))

\* C20: the checksum property of the payload exportarDados builds is the
\* checksum of the payload without that property, and that checksum is
\* the number, written in hexadecimal digits, that the character codes of
\* JSON.stringify of it add up to when the white-space characters are
\* left out.
C20_ChecksumDoExport ==
    (exportPc = "fim" /\ importPc = "idle") =>
        LET payload == MontaPayload(exportado)
            semChecksum == SemCampo(payload, "checksum")
            txt == Stringify(semChecksum, FALSE)
            RECURSIVE Plano(_, _)
            Plano(i, j) ==
                IF i > j THEN << >>
                ELSE IF i = j THEN Caracteres(txt[i])
                ELSE Plano(i, (i + j) \div 2) \o Plano((i + j) \div 2 + 1, j)
            str == SelectSeq(Plano(1, Len(txt)), LAMBDA c : ~EhBranco(c))
            RECURSIVE Total(_, _)
            Total(i, j) ==
                IF i > j THEN 0
                ELSE IF i = j THEN str[i]
                ELSE Total(i, (i + j) \div 2) + Total((i + j) \div 2 + 1, j)
            Digito(c) == IF c <= 57 THEN c - 48 ELSE c - 87
            RECURSIVE Valor(_)
            Valor(h) ==
                IF h = << >> THEN 0
                ELSE 16 * Valor(SubSeq(h, 1, Len(h) - 1)) + Digito(h[Len(h)])
            checksum == Campo(payload, "checksum")
        IN  /\ checksum.t = "str"
            /\ checksum.s = gerarChecksumSimples(semChecksum)
            /\ checksum.s /= << >>
            /\ \A k \in DOMAIN checksum.s :
                  checksum.s[k] \in (48..57) \cup (97..102)
            /\ checksum.s[1] /= 48
            /\ Valor(checksum.s) = Total(1, Len(str))

\* C20 witness: an export has read a book, whose title holds a space, and
\* a returned loan, whose return date is a string, and its payload is
\* about to be built.
C20_Witness ==
    /\ exportPc = "fim"
    /\ importPc = "idle"
    /\ exportado.livros /= EmptyStore
    /\ \E e \in DOMAIN exportado.emprestimos :
          exportado.emprestimos[e].status = "devolvido"

\* C21: when the file does not parse or fails one of the checks of
\* validarBackup, reader.onload ends with that error reported, creates no
\* transaction of DB.exportAllData or DB.importAllData, and leaves the
\* stores and their key generators as they were; and the import is past
\* the validation only with a payload that passes every check.
C21_InvalidoNaoToca ==
    /\ [][(/\ importPc = "lendo"
            /\ importPc' /= "lendo"
            /\ LET r == JSONparse(arquivo)
               IN  \/ ~r.ok
                   \/ RaizInvalida(r.v)
                   \/ ColecoesCorrompidas(r.v)
                   \/ TotalNaoConfere(r.v)
                   \/ ChecksumInvalido(r.v)
                   \/ validarEstrutura(Campo(r.v, "livros").a,
                                       CamposLivro, 1) /= Valido
                   \/ validarEstrutura(Campo(r.v, "alunos").a,
                                       CamposAluno, 1) /= Valido
                   \/ validarEstrutura(Campo(r.v, "emprestimos").a,
                                       CamposEmprestimo, 1) /= Valido)
           => /\ importPc' = "idle"
              /\ last'.op = "handleImportarDados"
              /\ last'.res \in {"ParseError", "MalformedRoot",
                                "CorruptCollections", "CountMismatch",
                                "ChecksumMismatch", "MissingField",
                                "InvalidItem"}
              /\ UNCHANGED <<livros, alunos, emprestimos, keyGen, exportPc,
                             exportado>>]_vars
    /\ [](importPc \in {"backup", "rollback"} =>
            /\ ~RaizInvalida(jsonLido)
            /\ ~ColecoesCorrompidas(jsonLido)
            /\ ~TotalNaoConfere(jsonLido)
            /\ ~ChecksumInvalido(jsonLido))

\* C21 witness: a file with a changed root value has been rejected for
\* its checksum while the database held a book, and no export is running.
C21_Witness ==
    /\ importPc = "idle"
    /\ exportPc = "idle"
    /\ last.op = "handleImportarDados"
    /\ last.res = "ChecksumMismatch"
    /\ DOMAIN livros /= {}

\* C22 as stated: every file that passes validarBackup goes on to the
\* temporary backup.  Violated: the confirm dialog (script.js:645-648)
\* stands between the validation and DB.exportAllData, and a declined
\* dialog ends the run.
C22_ValidoSempreImporta ==
    [][(/\ importPc = "lendo"
        /\ importPc' /= "lendo"
        /\ Leitura(arquivo).v.res = "ok")
       => importPc' = "backup"]_vars

\* C22 amended: a file that passes validarBackup goes on to the temporary
\* backup when the dialog is accepted, and ends the run with the stores
\* untouched and nothing shown when it is declined; DB.importAllData(json)
\* is called only after the three reads of the temporary backup, or not
\* at all when one of them fails; and a run that began its backup
\* eventually ends, with the toast of exactly one of Committed (success),
\* RolledBack, or Aborted (the error of the failed backup or rollback).
C22_ValidoConfirmadoImporta ==
    /\ [][(/\ importPc = "lendo"
            /\ importPc' /= "lendo"
            /\ Leitura(arquivo).v.res = "ok")
           => \/ /\ importPc' = "backup"
                 /\ exportPc' = "alunos"
                 /\ exportado'.livros = livros
              \/ /\ importPc' = "idle"
                 /\ ToastImportar(last').tipo = Null
                 /\ UNCHANGED <<livros, alunos, emprestimos, keyGen,
                                exportPc>>]_vars
    /\ [][(importPc = "backup" /\ importPc' /= "backup")
           => \/ /\ exportPc = "fim"
                 /\ \/ importPc' = "idle" /\ last'.res = "ok"
                    \/ importPc' = "rollback" /\ last'.op = "importAllData"
              \/ /\ exportPc /= "fim"
                 /\ importPc' = "idle"
                 /\ last'.op = "exportAllData"
                 /\ UNCHANGED <<livros, alunos, emprestimos, keyGen>>]_vars
    /\ [][(importPc \in {"backup", "rollback"} /\ importPc' = "idle")
           => /\ last'.op \in {"handleImportarDados", "rollback",
                                "exportAllData"}
              /\ last'.op = "handleImportarDados"
                   => last'.res \in {"ok", "RolledBack"}
              /\ ToastImportar(last').tipo =
                   (IF last'.res = "ok" THEN "success" ELSE "error")]_vars
    /\ (importPc = "backup") ~> (importPc = "idle")

\* C22 witness: a run whose dialog was accepted has ended rolled back,
\* after the import of the file with the repeated isbn failed.
C22_Witness ==
    /\ importPc = "idle"
    /\ last.op = "handleImportarDados"
    /\ last.res = "RolledBack"
    /\ ToastImportar(last).tipo = "error"
    /\ arquivo \in ArquivosImport

\* C23: after a run that ended RolledBack the three collections are a
\* content the database held at an instant of the temporary backup, whose
\* first read is made in the step that receives the input; the content
\* before the import request is such a content whenever the rollback
\* restores it.  Violated: the temporary backup is read in three
\* transactions (C13), and a checkout committed between them makes the
\* rollback write a content the database never held.
C23_RollbackFiel ==
    (last.op = "handleImportarDados" /\ last.res = "RolledBack")
        => Conteudo(CurrentDB) \in vistos

\* C24: a run whose rollback succeeded shows the toast of the rolled back
\* import; a run whose rollback failed shows a toast that differs from
\* that one; and no run that ended otherwise shows the toast of a failed
\* rollback.  Violated: the error of a failed rollback reaches the same
\* catch as every other error, and a failed read of the temporary backup,
\* which changed nothing, shows the same toast.
C24_FatalDistinto ==
    LET toastFatal ==
            {ToastImportar(Registro("rollback", r, NoId, f)) :
               r \in {"StorageFault", "ConstraintViolation"}, f \in 1..2}
    IN  /\ (last.op = "handleImportarDados" /\ last.res = "RolledBack")
             => ToastImportar(last).texto[2] =
                  "Erro durante a gravação no banco. Rollback executado com sucesso."
        /\ last.op = "rollback"
             => ToastImportar(last) /=
                  ToastImportar(Registro("handleImportarDados", "RolledBack",
                                         NoId, 0))
        /\ last.op \in {"handleImportarDados", "exportAllData"}
             => ToastImportar(last) \notin toastFatal

\* C25: a submit of the book form that edits a stored book and is saved
\* leaves the book with its old quantidadeDisponivel plus the change of
\* quantidadeTotal, which is not negative; a submit that is rejected, for
\* a negative result or by the data layer, leaves the stored books as they
\* were.
C25_EdicaoAjustaDisponivel ==
    [][(/\ formLivroId /= NoId
        /\ formLivroId \in DOMAIN livros
        /\ last'.op = "handleSalvarLivro"
        /\ (last' /= last \/ livros' /= livros
               \/ formLivroId' /= formLivroId))
       => LET id == formLivroId
          IN  IF last'.res = "ok"
              THEN /\ id \in DOMAIN livros'
                   /\ livros'[id].quantidadeDisponivel =
                        livros[id].quantidadeDisponivel
                          + (livros'[id].quantidadeTotal
                               - livros[id].quantidadeTotal)
                   /\ livros'[id].quantidadeDisponivel >= 0
                   /\ \A k \in DOMAIN livros \ {id} :
                         k \in DOMAIN livros' /\ livros'[k] = livros[k]
              ELSE livros' = livros]_vars

\* C25 witness: book 1 was edited while its one copy was on loan, and the
\* saved record still has no copy available.
C25_Witness ==
    /\ last.op = "handleSalvarLivro"
    /\ last.res = "ok"
    /\ last.ret = 1
    /\ 1 \in DOMAIN livros
    /\ livros[1].quantidadeTotal = 1
    /\ livros[1].quantidadeDisponivel = 0
    /\ \E e \in DOMAIN emprestimos :
          emprestimos[e].idLivro = 1 /\ emprestimos[e].status = "ativo"

\* C26: every call of DB.registrarEmprestimo and of DB.registrarDevolucao
\* whose transaction is queued eventually settles: its promise is resolved
\* or rejected.  Violated: a transaction aborted at commit time fires only
\* 'abort', for which the two calls set no handler, and the promise stays
\* pending for ever.
C26_ChamadaTermina ==
    \A s \in Slots :
        (chamadas[s].est = "fila") ~> (chamadas[s].est \in {"feito", "livre"})

\* C27: the transactions of the calls in flight run whole, one at a time,
\* in the order of their creation; and when the transactions of two
\* checkouts of one book with one copy available are the next two of the
\* queue, the first commits, the second fails Unavailable and changes
\* nothing, and after both the book has no copy available and there is
\* exactly one loan more.
C27_DoisEmprestimosEmCurso ==
    /\ [][\A s \in Slots :
             (chamadas[s].est = "fila" /\ chamadas'[s].est /= "fila")
             => LET out == Executa(CurrentDB, chamadas[s])
                IN  /\ s = Head(fila)
                    /\ fila' = Tail(fila)
                    /\ livros' = out.db.livros
                    /\ emprestimos' = out.db.emprestimos
                    /\ keyGen' = out.db.gen
                    /\ chamadas'[s].res = out.res
                    /\ \A t \in Slots \ {s} : chamadas'[t] = chamadas[t]]_vars
    /\ [](\A s1, s2 \in Slots :
            (/\ Len(fila) >= 2
             /\ fila[1] = s1
             /\ fila[2] = s2
             /\ chamadas[s1].op = "registrarEmprestimo"
             /\ chamadas[s2].op = "registrarEmprestimo"
             /\ chamadas[s1].falha = 0
             /\ chamadas[s2].falha = 0
             /\ chamadas[s1].arg.idLivro = chamadas[s2].arg.idLivro
             /\ chamadas[s1].arg.idLivro \in DOMAIN livros
             /\ livros[chamadas[s1].arg.idLivro].quantidadeDisponivel = 1)
            => LET b == chamadas[s1].arg.idLivro
                   o1 == Executa(CurrentDB, chamadas[s1])
                   o2 == Executa(o1.db, chamadas[s2])
               IN  /\ o1.res = "ok"
                   /\ o2.res = "Unavailable"
                   /\ o2.db = o1.db
                   /\ o2.db.livros[b].quantidadeDisponivel = 0
                   /\ Cardinality(DOMAIN o2.db.emprestimos) =
                        Cardinality(DOMAIN emprestimos) + 1)

\* C27 witness: two checkouts of book 1 have run while both handlers still
\* awaited; the first committed, the second failed Unavailable, the book
\* has no copy available and there is one loan.
C27_Witness ==
    /\ fila = << >>
    /\ chamadas[1].op = "registrarEmprestimo"
    /\ chamadas[2].op = "registrarEmprestimo"
    /\ chamadas[1].est = "feito"
    /\ chamadas[2].est = "feito"
    /\ chamadas[1].arg.idLivro = 1
    /\ chamadas[2].arg.idLivro = 1
    /\ chamadas[1].res = "ok"
    /\ chamadas[2].res = "Unavailable"
    /\ livros[1].quantidadeDisponivel = 0
    /\ Cardinality(DOMAIN emprestimos) = 1

\* C28: when the transactions of two returns of one active loan are the
\* next two of the queue, the first commits, the second fails
\* InvalidLoanState and changes nothing, and after both the book of the
\* loan has exactly one copy more available.
C28_DuasDevolucoesEmCurso ==
    \A s1, s2 \in Slots :
        (/\ Len(fila) >= 2
         /\ fila[1] = s1
         /\ fila[2] = s2
         /\ chamadas[s1].op = "registrarDevolucao"
         /\ chamadas[s2].op = "registrarDevolucao"
         /\ chamadas[s1].falha = 0
         /\ chamadas[s2].falha = 0
         /\ chamadas[s1].arg.id = chamadas[s2].arg.id
         /\ chamadas[s1].arg.id \in DOMAIN emprestimos
         /\ emprestimos[chamadas[s1].arg.id].status = "ativo")
        => LET e == chamadas[s1].arg.id
               b == emprestimos[e].idLivro
               o1 == Executa(CurrentDB, chamadas[s1])
               o2 == Executa(o1.db, chamadas[s2])
           IN  /\ o1.res = "ok"
               /\ o2.res = "InvalidLoanState"
               /\ o2.db = o1.db
               /\ o2.db.emprestimos[e].status = "devolvido"
               /\ b \in DOMAIN livros
                    => o2.db.livros[b].quantidadeDisponivel =
                         livros[b].quantidadeDisponivel + 1

\* C28 witness: two returns of loan 1 have run while both handlers still
\* awaited; the first committed, the second failed InvalidLoanState, and
\* the copy of book 1 is available again.
C28_Witness ==
    /\ fila = << >>
    /\ chamadas[1].op = "registrarDevolucao"
    /\ chamadas[2].op = "registrarDevolucao"
    /\ chamadas[1].est = "feito"
    /\ chamadas[2].est = "feito"
    /\ chamadas[1].arg.id = 1
    /\ chamadas[2].arg.id = 1
    /\ chamadas[1].res = "ok"
    /\ chamadas[2].res = "InvalidLoanState"
    /\ 1 \in DOMAIN livros
    /\ livros[1].quantidadeDisponivel = 1
    /\ emprestimos[1].status = "devolvido"

\* C29: every stored book has its quantidadeDisponivel plus the number of
\* the active loans of that book equal to its quantidadeTotal.  Violated:
\* the edit of a book that was deleted while the form held it writes the
\* book anew with every copy available (C31), whatever loans are active.
C29_Conservacao ==
    \A b \in DOMAIN livros :
        livros[b].quantidadeDisponivel
          + Cardinality({e \in DOMAIN emprestimos :
                           /\ emprestimos[e].idLivro = b
                           /\ emprestimos[e].status = "ativo"})
          = livros[b].quantidadeTotal

\* C30: the save of an edit leaves the book with the availability it has
\* when the save is written plus the change of the total, so that a
\* checkout or a return committed after the edit's read is kept; and
\* every stored book keeps 0 <= quantidadeDisponivel <= quantidadeTotal.
\* Violated: the edit reads in one transaction and writes, in another, the
\* availability computed from what it read.
C30_EdicaoSemPerda ==
    /\ [][\A s \in Slots :
             (/\ chamadas[s].est = "fila"
              /\ chamadas[s].op = "save"
              /\ chamadas'[s].est = "feito"
              /\ chamadas'[s].res = "ok"
              /\ chamadas[s].arg.id \in DOMAIN livros)
             => LET id == chamadas[s].arg.id
                IN  livros'[id].quantidadeDisponivel =
                      livros[id].quantidadeDisponivel
                        + (livros'[id].quantidadeTotal
                             - livros[id].quantidadeTotal)]_vars
    /\ [](\A b \in DOMAIN livros :
            /\ 0 <= livros[b].quantidadeDisponivel
            /\ livros[b].quantidadeDisponivel <= livros[b].quantidadeTotal)

\* C31: a submit of the book form whose hidden id names a book that is no
\* longer stored writes nothing and ends with a failure reported.
\* Violated: the failed read of the old record is caught and only logged,
\* and DB.save writes the form's record under the old key with every copy
\* available.
C31_EdicaoDeExcluidoNaoGrava ==
    [][(/\ formLivroId /= NoId
        /\ formLivroId \notin DOMAIN livros
        /\ last'.op = "handleSalvarLivro"
        /\ (livros' /= livros \/ last' /= last))
       => /\ livros' = livros
          /\ last'.res /= "ok"]_vars

\* C32: a rollback that succeeds leaves the three collections as they were
\* when DB.importAllData(json) began, which is how the failed import left
\* them, with every write committed after the temporary backup was read.
\* Violated: the rollback replaces the content by the temporary backup,
\* and a checkout or a save committed after the backup's last read is
\* gone.
C32_RollbackNaoPerde ==
    [][(/\ importPc = "rollback"
        /\ importPc' = "idle"
        /\ last'.res = "RolledBack")
       => /\ livros' = livros
          /\ alunos' = alunos
          /\ emprestimos' = emprestimos]_vars

\* C33: after an import that committed, every stored book has
\* 0 <= quantidadeDisponivel <= quantidadeTotal and every stored loan has
\* status 'devolvido' exactly when its dataDevolucaoReal is set.
\* Violated: validarBackup checks the shape, the total and the checksum of
\* the payload, and none of the values of its records.
C33_ImportadoCoerente ==
    (last.op = "handleImportarDados" /\ last.res = "ok")
        => /\ \A b \in DOMAIN livros :
                /\ 0 <= livros[b].quantidadeDisponivel
                /\ livros[b].quantidadeDisponivel <= livros[b].quantidadeTotal
           /\ \A e \in DOMAIN emprestimos :
                emprestimos[e].status = "devolvido"
                    <=> emprestimos[e].dataDevolucaoReal /= Null

\* C34: from the choice of the file to the end of a run with no other
\* operation in between, the three collections stay as they were before
\* the run, through the reads of the temporary backup, a failed import, a
\* rollback and a failed rollback; the one step that changes them is the
\* import that commits, and it leaves exactly the records of the file,
\* each under its id.
C34_ImportadoOuAnterior ==
    [][(importPc \in {"lendo", "backup", "rollback"})
       => ( \/ Conteudo(CurrentDB)' = Conteudo(CurrentDB)
          \/ /\ importPc = "backup"
             /\ exportPc = "fim"
             /\ importPc' = "idle"
             /\ last'.op = "handleImportarDados"
             /\ last'.res = "ok"
             /\ LET data == DadosDe(jsonLido)
                    Guardado(itens) ==
                        [k \in {itens[i].id : i \in DOMAIN itens} |->
                            itens[CHOOSE i \in DOMAIN itens :
                                    /\ itens[i].id = k
                                    /\ \A j \in DOMAIN itens :
                                          itens[j].id = k => j <= i]]
                IN  /\ livros' = Guardado(data.livros)
                    /\ alunos' = Guardado(data.alunos)
                    /\ emprestimos' = Guardado(data.emprestimos) )]_vars

\* C34 witness: a run in which the import and then the rollback failed has
\* ended while the database holds a book.
C34_Witness ==
    /\ importPc = "idle"
    /\ last.op = "rollback"
    /\ last.res = "StorageFault"
    /\ DOMAIN livros /= {}

====
